---- MODULE Spec2Model ----
(***************************************************************************)
(* A model of notion-exporter: the per-page / per-database-item export     *)
(* (exportNotionPage, exportDatabaseItem) with its update detection, and   *)
(* the admission-controlled fan-out loop of processSubpagesWithConcurrency *)
(* and exportNotionDatabase.                                               *)
(*                                                                         *)
(* Strings the code inspects character by character (titles, file names)   *)
(* are sequences of one-character strings.  A path is a sequence of        *)
(* components, each such a character sequence.  A file is a sequence of    *)
(* lines; a line is a tuple whose first element names what the line is.    *)
(***************************************************************************)
EXTENDS Integers, Sequences, FiniteSets, TLC

VARIABLES
    \* ---- the environment of an export call ----
    token,      \* process.env.NOTION_TOKEN is set
    provider,   \* the pages as Notion holds them now: page id -> page object
    fs,         \* the files on disk: path -> [lines, mtime]
    dirs,       \* the directories on disk: a set of paths
    clock,      \* the file system's time, advanced by every write
    \* ---- one call of exportNotionPage / exportDatabaseItem ----
    pc,         \* where the call is: idle, getPage, getBlocks, enrich, convert, done, failed
    args,       \* the call's arguments
    loc,        \* the call's local constants, set when the page is known
    blocks,     \* the call's block array
    result,     \* what the call resolved or rejected with
    req,        \* requests the call has issued: [page, blocks, db]
    \* ---- history of the call, for the properties ----
    atStart,    \* fs and dirs as they were when the call started
    decision,   \* none, skip or process: the outcome of the update check
    written,    \* path -> what the last export that wrote it wrote
    ncalls,     \* calls made so far
    \* ---- one fan-out loop ----
    fanKind,    \* subpages or items
    total,      \* number of entries of the list the loop was given
    queue,      \* entries not yet started
    inProgress, \* the promises the loop tracks
    results,    \* the results the loop has recorded
    status,     \* entry -> queued, running, fulfilled or failed
    winner,     \* the promise that settles the pending Promise.race (0: none yet)
    lpc,        \* where the loop is: start, racing, returned, threw
    started,    \* the entries in the order their exports were started
    \* ---- one recursive run: an entry point and the exports it starts ----
    run,        \* the entry point called, its arguments, and how it stands
    tasks,      \* node -> the export of that node: where it is, its locals
    loops,      \* node -> the fan-out loop that node's export runs
    trace,      \* what the run has done so far: requests, starts, writes
    \* ---- one getNotionBlocks call and the calls nested in it ----
    calls,      \* block id -> the getNotionBlocks call for that block
    reqLog,     \* the list-children requests issued, in order
    \* ---- one application of a function of the program ----
    fnIn,       \* the function applied and its arguments
    fnOut,      \* what it returned, or nothing yet
    \* ---- conversions of pages with images into one destination directory ----
    conv,       \* page -> its convertBlocksToMarkdown call: where it is
    imagesDir,  \* <destination>/images: whether it exists, and its files by name
    downloads   \* the downloads started so far, in order, and how each ended

exportVars == <<token, provider, fs, dirs, clock, pc, args, loc, blocks, result,
                req, atStart, decision, written, ncalls>>
fanVars == <<fanKind, total, queue, inProgress, results, status, winner, lpc, started>>
treeVars == <<run, tasks, loops, trace>>
blockVars == <<calls, reqLog>>
pureVars == <<fnIn, fnOut>>
imageVars == <<conv, imagesDir, downloads>>
restVars == <<treeVars, blockVars, pureVars, imageVars>>
vars == <<exportVars, fanVars, restVars>>

----------------------------------------------------------------------------
(* Bounds of the model *)

MaxCalls == 2
MaxEdits == 1
MaxItems == 5

----------------------------------------------------------------------------
(* Sequences *)

Last(s) == s[Len(s)]

Front(s) == SubSeq(s, 1, Len(s) - 1)

Range(s) == {s[i] : i \in DOMAIN s}

----------------------------------------------------------------------------
(* getSafeFilename: a title is a sequence of characters *)

ProhibitedChars == {"/", "\\", ":", "*", "?", "\"", "<", ">", "|"}
WhitespaceChars == {" ", "\t", "\n"}
MAX_FILENAME_LENGTH == 100
Untitled == <<"U", "n", "t", "i", "t", "l", "e", "d">>

\* .replace(/[/\\:*?"<>|]/g, "")
RemoveProhibited(s) == SelectSeq(s, LAMBDA c : c \notin ProhibitedChars)

\* marks a character that a replacement takes out
Dropped == "dropped"

\* .replace(/\s+/g, "_"): every maximal run of whitespace becomes one
\* underscore, put where the run ends
ReplaceWhitespaceRuns(s) ==
    LET replaced == [i \in DOMAIN s |->
                        IF s[i] \notin WhitespaceChars THEN s[i]
                        ELSE IF i < Len(s) /\ s[i + 1] \in WhitespaceChars
                             THEN Dropped ELSE "_"]
    IN  SelectSeq(replaced, LAMBDA c : c # Dropped)

RECURSIVE StripLeading(_, _)
StripLeading(s, cs) ==
    IF s # <<>> /\ Head(s) \in cs THEN StripLeading(Tail(s), cs) ELSE s

RECURSIVE StripTrailing(_, _)
StripTrailing(s, cs) ==
    IF s # <<>> /\ Last(s) \in cs THEN StripTrailing(Front(s), cs) ELSE s

\* .replace(/^[.\s]+|[.\s]+$/g, "")
TrimDotsAndSpace(s) ==
    StripTrailing(StripLeading(s, {"."} \cup WhitespaceChars),
                  {"."} \cup WhitespaceChars)

\* underscores left as they are
KeepUnderscores(s) == s

\* .replace(/_+/g, "_"): of every run of underscores the last one stays
CollapseUnderscores(s) ==
    LET replaced == [i \in DOMAIN s |->
                        IF s[i] = "_" /\ i < Len(s) /\ s[i + 1] = "_"
                        THEN Dropped ELSE s[i]]
    IN  SelectSeq(replaced, LAMBDA c : c # Dropped)

\* String.prototype.trim() === ""
IsBlank(s) == \A i \in DOMAIN s : s[i] \in WhitespaceChars

getSafeFilename(title) ==
    IF title = <<>> \/ IsBlank(title) \/ title = Untitled THEN Untitled
    ELSE LET safeTitle ==
                 CollapseUnderscores(
                     TrimDotsAndSpace(
                         ReplaceWhitespaceRuns(RemoveProhibited(title))))
         IN  IF safeTitle = <<>> \/ IsBlank(safeTitle) THEN Untitled
             ELSE IF Len(safeTitle) > MAX_FILENAME_LENGTH
                  THEN SubSeq(safeTitle, 1, MAX_FILENAME_LENGTH)
                  ELSE safeTitle

----------------------------------------------------------------------------
(* Paths *)

DotDot == <<".", ".">>
Dot == <<".">>
MdExt == <<".", "m", "d">>

\* path.normalize of a relative path: "." and empty components go, "x/.."
\* cancels, and ".." components that cannot cancel stay at the front.
RECURSIVE NormalizeInto(_, _)
NormalizeInto(done, rest) ==
    IF rest = <<>> THEN done
    ELSE LET c == Head(rest)
         IN  IF c = Dot \/ c = <<>> THEN NormalizeInto(done, Tail(rest))
             ELSE IF c = DotDot /\ done # <<>> /\ Last(done) # DotDot
                  THEN NormalizeInto(Front(done), Tail(rest))
                  ELSE NormalizeInto(Append(done, c), Tail(rest))

PathNormalize(p) == NormalizeInto(<<>>, p)

Backslash == "\\"

\* a relative path used as it is
StripNothing(p) == p

\* .replace(/^(\.\.(\/|\\|$))+/, ""): every leading ".." component goes,
\* and so does a "..\" at the front of the first component
RECURSIVE StripLeadingDotDots(_)
StripLeadingDotDots(p) ==
    IF p = <<>> THEN p
    ELSE IF Head(p) = DotDot THEN StripLeadingDotDots(Tail(p))
    ELSE IF Len(Head(p)) >= 3 /\ SubSeq(Head(p), 1, 3) = <<".", ".", Backslash>>
         THEN StripLeadingDotDots(<<SubSeq(Head(p), 4, Len(Head(p)))>> \o Tail(p))
         ELSE p

safePathJoin(baseDir, relativePath) ==
    PathNormalize(baseDir \o StripLeadingDotDots(PathNormalize(relativePath)))

\* the directories fs.mkdirSync(dirPath, {recursive: true}) makes sure of
Ancestors(p) == {SubSeq(p, 1, k) : k \in 1..Len(p)}

ensureDirectoryExists(ds, dirPath) ==
    IF dirPath \notin ds THEN ds \cup Ancestors(dirPath) ELSE ds

----------------------------------------------------------------------------
(* JavaScript values and objects.  A value is tagged with its type; an     *)
(* object is the sequence of its <<key, value>> entries in insertion order *)

JStr(x) == <<"str", x>>
JBool(b) == <<"bool", b>>
JNull == <<"null">>
JUndef == <<"undef">>
JObj(o) == <<"obj", o>>

HasKey(obj, key) == \E i \in DOMAIN obj : obj[i][1] = key

\* obj[key], undefined when the object has no such key
Get(obj, key) ==
    IF HasKey(obj, key)
    THEN obj[CHOOSE i \in DOMAIN obj :
                 /\ obj[i][1] = key
                 /\ \A j \in DOMAIN obj : obj[j][1] = key => j <= i][2]
    ELSE JUndef

(* JSON text, by lines as JSON.stringify(value, null, 2) lays an object    *)
(* out: an opening brace, one line per entry whose value is not undefined, *)
(* a closing brace.  A string is written quoted, true, false and null as   *)
(* literals, a nested object as its own text.                              *)

OpenBrace == <<"{">>
CloseBrace == <<"}">>

RECURSIVE JSONStringify(_)
JSONStringify(obj) ==
    LET Encode(v) ==
            CASE v[1] = "str"  -> <<"quoted", v[2]>>
              [] v[1] = "bool" -> <<"lit", IF v[2] THEN "true" ELSE "false">>
              [] v[1] = "null" -> <<"lit", "null">>
              [] v[1] = "obj"  -> <<"object", JSONStringify(v[2])>>
        kept == SelectSeq(obj, LAMBDA e : e[2] # JUndef)
    IN  <<OpenBrace>>
        \o [i \in DOMAIN kept |-> <<"kv", kept[i][1], Encode(kept[i][2])>>]
        \o <<CloseBrace>>

\* CurrentMetadata with last_edited_time taken from the wrong field
CurrentMetadataFromCreatedTime(page) ==
    << <<"id", JStr(page.id)>>,
       <<"created_time", JStr(page.created_time)>>,
       <<"last_edited_time", JStr(page.created_time)>>,
       <<"url", JStr(page.url)>>,
       <<"archived", JBool(page.archived)>>,
       <<"in_trash", JBool(page.in_trash)>>,
       <<"public_url", page.public_url>> >>

\* CurrentMetadata with public_url left undefined
CurrentMetadataNoPublicUrl(page) ==
    << <<"id", JStr(page.id)>>,
       <<"created_time", JStr(page.created_time)>>,
       <<"last_edited_time", JStr(page.last_edited_time)>>,
       <<"url", JStr(page.url)>>,
       <<"archived", JBool(page.archived)>>,
       <<"in_trash", JBool(page.in_trash)>>,
       <<"public_url", JUndef>> >>

\* the metadata record of a page (ExportedMetadata)
CurrentMetadata(page) ==
    << <<"id", JStr(page.id)>>,
       <<"created_time", JStr(page.created_time)>>,
       <<"last_edited_time", JStr(page.last_edited_time)>>,
       <<"url", JStr(page.url)>>,
       <<"archived", JBool(page.archived)>>,
       <<"in_trash", JBool(page.in_trash)>>,
       <<"public_url", page.public_url>> >>

Sentinel == <<"<!-- ** GENERATED_BY_NOTION_EXPORTER **">>
EndMarker == <<"-->">>
BlankLine == <<"">>

\* the comment block that opens every exported file
MetadataComment(meta) == <<Sentinel>> \o JSONStringify(meta) \o <<EndMarker>>

\* `${metadataComment}\n\n# ${pageTitle}\n\n${markdownContent}`
PageMarkdown(meta, pageTitle, content) ==
    MetadataComment(meta) \o <<BlankLine, <<"h1", pageTitle>>, BlankLine>> \o content

----------------------------------------------------------------------------
(* Reading the metadata back: extractMetadataFromMarkdown and              *)
(* hasPageBeenUpdated of ./utils, and the JSON.parse they rest on.         *)

\* JSON.parse of the text of an object: <<TRUE, object>>, or <<FALSE, <<>>>>
\* where JSON.parse throws
RECURSIVE JSONParse(_)
JSONParse(lines) ==
    LET n == Len(lines)
        ValueOk(t) ==
            \/ t[1] = "quoted"
            \/ t[1] = "lit" /\ t[2] \in {"true", "false", "null"}
            \/ t[1] = "object" /\ JSONParse(t[2])[1]
        Decode(t) ==
            CASE t[1] = "quoted" -> JStr(t[2])
              [] t[1] = "lit" /\ t[2] = "null" -> JNull
              [] t[1] = "lit" /\ t[2] # "null" -> JBool(t[2] = "true")
              [] t[1] = "object" -> JObj(JSONParse(t[2])[2])
        wellFormed ==
            /\ n >= 2
            /\ lines[1] = OpenBrace
            /\ lines[n] = CloseBrace
            /\ \A i \in 2..(n - 1) :
                   /\ Len(lines[i]) = 3
                   /\ lines[i][1] = "kv"
                   /\ ValueOk(lines[i][3])
    IN  IF wellFormed
        THEN <<TRUE, [i \in 1..(n - 2) |-> <<lines[i + 1][2], Decode(lines[i + 1][3])>>]>>
        ELSE <<FALSE, <<>>>>

NoMetadata == <<FALSE, <<>>>>

\* <<TRUE, metadata>> read from the file at path, or NoMetadata
extractMetadataFromMarkdown(files, path) ==
    IF path \notin DOMAIN files THEN NoMetadata
    ELSE LET lines == files[path].lines
             ends == {k \in 2..Len(lines) : lines[k] = EndMarker}
         IN  IF lines = <<>> \/ lines[1] # Sentinel \/ ends = {} THEN NoMetadata
             ELSE LET k == CHOOSE e \in ends : \A f \in ends : e <= f
                      parsed == JSONParse(SubSeq(lines, 2, k - 1))
                  IN  IF parsed[1] THEN parsed ELSE NoMetadata

hasPageBeenUpdated(current, existing) ==
    IF ~existing[1] THEN TRUE
    ELSE Get(current, "last_edited_time") # Get(existing[2], "last_edited_time")

----------------------------------------------------------------------------
(* The provider's pages, and the blocks of their content *)

PageIds == {"p1", "p2"}
DatabaseId == "d1"
\* a second child database, which has no items
SecondDatabaseId == "d2"
DatabaseIds == <<DatabaseId, SecondDatabaseId>>
IdChars == [d1 |-> <<"d", "1">>, d2 |-> <<"d", "2">>]

TitleAB == <<"A", " ", "B">>
TitleN == <<"N">>
Titles == {TitleAB, TitleN}

\* last_edited_time values, in the order the provider hands them out
Timestamps == <<"2024-01-01", "2024-01-02", "2024-01-03", "2024-01-04",
                "2024-01-05", "2024-01-06", "2024-01-07", "2024-01-08">>

Paragraph(id, text) == [id |-> id, type |-> "paragraph", text |-> text]
ChildDatabase(id) == [id |-> id, type |-> "child_database", enriched |-> FALSE,
                      items |-> <<>>]

\* a toggle block with the children processNestedBlocks attached to it
Toggle(id, children) == [id |-> id, type |-> "toggle", children |-> children]

\* the block is a child database, or a block with one among its children
HoldsDatabase(block) ==
    \/ block.type = "child_database"
    \/ /\ "children" \in DOMAIN block
       /\ \E j \in DOMAIN block.children : block.children[j].type = "child_database"

ContentV1 == <<Paragraph("b1", "Test content")>>
ContentV2 == <<Paragraph("b1", "Updated content"), ChildDatabase(DatabaseId)>>

\* getPageTitle: the text of the title property, "Untitled" when it is empty
getPageTitle(page) == IF page.title = <<>> THEN Untitled ELSE page.title

\* the property values exportDatabaseItem extracts (the title property)
PropertyMetadata(page) == << <<"Name", JStr(page.title)>> >>

\* a child_page block: the page of that id is a subpage
ChildPage(id, title) == [id |-> id, type |-> "child_page", title |-> title]

\* the pages of the recursive run: a root page, its two subpages, and the
\* two items of its child database
RootId == "r"
SubpageIds == <<"s1", "s2">>
ItemIds == <<"i1", "i2">>
TreePages == {RootId} \cup Range(SubpageIds) \cup Range(ItemIds)
TitleR == <<"R">>

\* the ids of the pages a query of the database returns, in the order the
\* provider returns them
QueriedIds(prov) == IF DOMAIN prov = PageIds THEN <<"p2">> ELSE ItemIds

QueriedIdsOf(prov, databaseId) ==
    IF databaseId = SecondDatabaseId THEN <<>> ELSE QueriedIds(prov)

\* the items queryDatabase returns for the child database, as
\* enrichChildDatabaseBlocks keeps them: id, url and the title property
DatabaseItems(prov, databaseId) ==
    LET ids == QueriedIdsOf(prov, databaseId)
    IN  [k \in DOMAIN ids |->
            [id |-> prov[ids[k]].id, url |-> prov[ids[k]].url,
             Name |-> prov[ids[k]].title]]

(* What convertBlocksToMarkdown gives for the blocks of an exported page,   *)
(* kept as one line per block (the text itself is modelled further down).  *)
(* A child database renders as a table whose first column links to         *)
(* databases/<id>/<file>.md when it was enriched with items, and as a link  *)
(* to the database otherwise.                                               *)
convertLeafToLine(block) ==
    CASE block.type = "paragraph" -> <<"text", block.text>>
      [] block.type = "child_page" -> <<"link", block.title, block.id>>
      [] block.type = "child_database" ->
            IF ~block.enriched \/ block.items = <<>>
            THEN <<"link", "Database", block.id>>
            ELSE <<"table", block.id,
                   [i \in DOMAIN block.items |->
                       getSafeFilename(getPageTitle([title |-> block.items[i].Name]))
                           \o MdExt]>>
      [] OTHER -> <<"unsupported", block.type>>

\* a toggle renders the lines of its children inside its <details>
convertBlockToLine(block) ==
    IF block.type = "toggle"
    THEN <<"toggle", [j \in DOMAIN block.children |->
                         convertLeafToLine(block.children[j])]>>
    ELSE convertLeafToLine(block)

convertBlocksToLines(bs) == [i \in DOMAIN bs |-> convertBlockToLine(bs[i])]

----------------------------------------------------------------------------
(* One call of exportNotionPage or exportDatabaseItem.  The code between   *)
(* two awaits runs without interruption and is one action; the provider    *)
(* may change, and a request may fail, while the call waits.               *)

OutDir == << <<"o", "u", "t">> >>
DatabasesName == <<"d", "a", "t", "a", "b", "a", "s", "e", "s">>

\* exportNotionDatabase: safePathJoin(destinationDir, safePathJoin("databases", databaseId))
databaseDirOf(destinationDir, idPath) ==
    safePathJoin(destinationDir, safePathJoin(<<DatabasesName>>, idPath))

DatabaseDir(destinationDir, databaseId) ==
    databaseDirOf(destinationDir, <<IdChars[databaseId]>>)

NoCustom == <<>>
CustomNames == {NoCustom, <<"c">>}

NoLoc == [page |-> <<>>, pageTitle |-> <<>>, filename |-> <<>>, path |-> <<>>,
          meta |-> <<>>]
NoResult == [kind |-> "none"]
NoRequests == [page |-> 0, blocks |-> 0, db |-> 0]

\* the name of the call's Markdown file
ResolveFilename(pageTitle, customFilename) ==
    IF customFilename # NoCustom
    THEN getSafeFilename(customFilename)
    ELSE getSafeFilename(pageTitle)

\* the constants a call derives from the page object it holds
Locals(page, destinationDir, customFilename) ==
    LET pageTitle == getPageTitle(page)
        filename == ResolveFilename(pageTitle, customFilename)
    IN  [page |-> page,
         pageTitle |-> pageTitle,
         filename |-> filename,
         path |-> safePathJoin(destinationDir, <<filename \o MdExt>>),
         meta |-> CurrentMetadata(page)]

\* NeedsUpdate without the check: every call exports
NeedsUpdateAlways(files, l) == TRUE

\* NeedsUpdate comparing the whole metadata record
NeedsUpdateAnyField(files, l) ==
    LET existing == extractMetadataFromMarkdown(files, l.path)
    IN  ~existing[1] \/ existing[2] # l.meta

\* NeedsUpdate that takes unreadable metadata for "no update"
NeedsUpdateOnlyIfReadable(files, l) ==
    LET existing == extractMetadataFromMarkdown(files, l.path)
    IN  existing[1] /\ hasPageBeenUpdated(l.meta, existing)

\* the update check: existing metadata is read from the file and compared
NeedsUpdate(files, l) ==
    hasPageBeenUpdated(l.meta, extractMetadataFromMarkdown(files, l.path))

\* the ExportResult of a page, the DatabaseItemExportResult of an item
Success(a, l) ==
    IF a.kind = "page"
    THEN [kind |-> "resolved", success |-> TRUE, pageId |-> a.pageId,
          pageTitle |-> l.pageTitle, path |-> l.path]
    ELSE [kind |-> "resolved", success |-> TRUE, pageId |-> l.page.id,
          pageTitle |-> l.pageTitle, path |-> l.path,
          metadata |-> PropertyMetadata(l.page)]

Rejected(error) == [kind |-> "rejected", error |-> error]

\* RequestsAfterCheck with the blocks fetched before the check
RequestsAfterCheckFetchFirst(r, needsUpdate) == [r EXCEPT !.blocks = @ + 1]

\* getNotionBlocks is called only when an update is needed
RequestsAfterCheck(r, needsUpdate) ==
    IF needsUpdate THEN [r EXCEPT !.blocks = @ + 1] ELSE r

\* from the page object to the first await after it, for the call with
\* arguments a that has issued the requests r: the skip return, or the call
\* of getNotionBlocks
CheckAndProceed(page, a, r) ==
    LET l == Locals(page, a.dir, a.custom)
        needsUpdate == NeedsUpdate(fs, l)
    IN  /\ loc' = l
        /\ req' = RequestsAfterCheck(r, needsUpdate)
        /\ IF ~needsUpdate
           THEN /\ decision' = "skip"
                /\ pc' = "done"
                /\ result' = Success(a, l)
           ELSE /\ decision' = "process"
                /\ pc' = "getBlocks"
                /\ result' = NoResult

\* no call is running: none was made yet, or the last one has resolved or rejected
Settled == pc \in {"idle", "done", "failed"}

\* exportNotionPage(pageId, destinationDir, false, customFilename) is called
CallPage(p, custom) ==
    /\ Settled
    /\ ncalls < MaxCalls
    /\ ncalls' = ncalls + 1
    /\ args' = [kind |-> "page", pageId |-> p, dir |-> OutDir, custom |-> custom]
    /\ atStart' = [fs |-> fs, dirs |-> dirs, written |-> written]
    /\ decision' = "none"
    /\ loc' = NoLoc
    /\ blocks' = <<>>
    /\ IF ~token
       THEN /\ pc' = "failed"
            /\ result' = Rejected("NotionTokenError")
            /\ req' = NoRequests
       ELSE /\ pc' = "getPage"
            /\ result' = NoResult
            /\ req' = [NoRequests EXCEPT !.page = 1]
    /\ UNCHANGED <<token, provider, fs, dirs, clock, written, fanVars, restVars>>

\* getNotionPage resolves
GetPageOk ==
    /\ pc = "getPage"
    /\ CheckAndProceed(provider[args.pageId], args, req)
    /\ UNCHANGED <<token, provider, fs, dirs, clock, args, blocks, atStart,
                   written, ncalls, fanVars, restVars>>

\* getNotionPage rejects; the catch of exportNotionPage rethrows
GetPageFail ==
    /\ pc = "getPage"
    /\ pc' = "failed"
    /\ result' = Rejected("NotionAPIError")
    /\ UNCHANGED <<token, provider, fs, dirs, clock, args, loc, blocks, req,
                   atStart, decision, written, ncalls, fanVars, restVars>>

\* exportDatabaseItem(notion, page, databaseDir, false) is called by
\* exportNotionDatabase, which has checked the token and made the database
\* directory, with a page object of the query it made
CallItem(p) ==
    /\ Settled
    /\ ncalls < MaxCalls
    /\ token
    /\ DatabaseDir(OutDir, DatabaseId) \in dirs
    /\ ncalls' = ncalls + 1
    /\ LET a == [kind |-> "item", pageId |-> p,
                 dir |-> DatabaseDir(OutDir, DatabaseId), custom |-> NoCustom]
       IN  /\ args' = a
           /\ CheckAndProceed(provider[p], a, NoRequests)
    /\ atStart' = [fs |-> fs, dirs |-> dirs, written |-> written]
    /\ blocks' = <<>>
    /\ UNCHANGED <<token, provider, fs, dirs, clock, written, fanVars, restVars>>

\* getNotionBlocks resolves with the blocks the page has now
GetBlocksOk ==
    /\ pc = "getBlocks"
    /\ blocks' = provider[args.pageId].content
    /\ pc' = IF args.kind = "page" THEN "enrich" ELSE "convert"
    /\ UNCHANGED <<token, provider, fs, dirs, clock, args, loc, result, req,
                   atStart, decision, written, ncalls, fanVars, restVars>>

\* getNotionBlocks rejects; the catch rethrows
GetBlocksFail ==
    /\ pc = "getBlocks"
    /\ pc' = "failed"
    /\ result' = Rejected("NotionAPIError")
    /\ UNCHANGED <<token, provider, fs, dirs, clock, args, loc, blocks, req,
                   atStart, decision, written, ncalls, fanVars, restVars>>

\* enrichChildDatabaseBlocks: for each child_database block getDatabase and
\* queryDatabase are called; when both resolve the block gets its
\* database_content, when one rejects the error is logged and the block
\* stays as it is; the children of a block are enriched in the same way.
\* outcome: block index -> "ok", "getFails" or "queryFails", the outcome of
\* the child database that the block is or holds
EnrichedBlock(block, outcome, prov) ==
    IF block.type = "child_database" /\ outcome = "ok"
    THEN [block EXCEPT !.enriched = TRUE,
                       !.items = DatabaseItems(prov, block.id)]
    ELSE block

EnrichedBlocks(bs, outcome, prov) ==
    [i \in DOMAIN bs |->
        IF "children" \in DOMAIN bs[i]
        THEN [bs[i] EXCEPT !.children =
                 [j \in DOMAIN @ |-> EnrichedBlock(@[j], outcome[i], prov)]]
        ELSE EnrichedBlock(bs[i], outcome[i], prov)]

EnrichRequests(bs, outcome) ==
    LET dbs == {i \in DOMAIN bs : HoldsDatabase(bs[i])}
    IN  2 * Cardinality({i \in dbs : outcome[i] # "getFails"})
        + Cardinality({i \in dbs : outcome[i] = "getFails"})

Enrich ==
    /\ pc = "enrich"
    /\ \E outcome \in [DOMAIN blocks -> {"ok", "getFails", "queryFails"}] :
           /\ \A i \in DOMAIN blocks :
                  ~HoldsDatabase(blocks[i]) => outcome[i] = "ok"
           /\ blocks' = EnrichedBlocks(blocks, outcome, provider)
           /\ req' = [req EXCEPT !.db = @ + EnrichRequests(blocks, outcome)]
    /\ pc' = "convert"
    /\ UNCHANGED <<token, provider, fs, dirs, clock, args, loc, result,
                   atStart, decision, written, ncalls, fanVars, restVars>>

\* the text exportNotionPage writes
PageFileText(l, bs) == PageMarkdown(l.meta, l.pageTitle, convertBlocksToLines(bs))

\* the text exportDatabaseItem writes: the metadata carries the properties,
\* and the properties are shown above the content
ItemFileText(l, bs) ==
    MetadataComment(l.meta \o << <<"properties", JObj(PropertyMetadata(l.page))>> >>)
    \o <<BlankLine, <<"h1", l.pageTitle>>, BlankLine>>
    \o (IF l.page.title # <<>>
        THEN << <<"props", l.page.title>>, BlankLine, <<"hr">>, BlankLine >>
        ELSE <<>>)
    \o convertBlocksToLines(bs)

\* fs.writeFileSync(path, text)
WriteFile(files, path, text, now) == (path :> [lines |-> text, mtime |-> now]) @@ files

\* convertBlocksToMarkdown resolves; the file is built and written
ConvertAndWrite ==
    /\ pc = "convert"
    /\ clock' = clock + 1
    /\ dirs' = IF args.kind = "page" THEN ensureDirectoryExists(dirs, args.dir) ELSE dirs
    /\ fs' = WriteFile(fs, loc.path,
                       IF args.kind = "page" THEN PageFileText(loc, blocks)
                                             ELSE ItemFileText(loc, blocks),
                       clock + 1)
    /\ written' = (loc.path :> [page |-> loc.page, kind |-> args.kind,
                                blocks |-> blocks]) @@ written
    /\ pc' = "done"
    /\ result' = Success(args, loc)
    /\ UNCHANGED <<token, provider, args, loc, blocks, req, atStart, decision,
                   ncalls, fanVars, restVars>>

\* the other content: an edit changes what the page says
OtherContent(content) == IF content = ContentV1 THEN ContentV2 ELSE ContentV1

\* the page is edited in Notion: a later last_edited_time, new content and
\* any title
Edit(p, title) ==
    /\ provider[p].version <= MaxEdits
    /\ provider' = [provider EXCEPT
                       ![p].version = @ + 1,
                       ![p].title = title,
                       ![p].content = OtherContent(@),
                       ![p].last_edited_time = Timestamps[provider[p].version + 1]]
    /\ UNCHANGED <<token, fs, dirs, clock, pc, args, loc, blocks, result, req,
                   atStart, decision, written, ncalls, fanVars, restVars>>

\* the page is published to the web: it gets a public_url, and its
\* last_edited_time stays
Publish(p) ==
    /\ provider[p].public_url = JNull
    /\ provider' = [provider EXCEPT ![p].public_url = JStr("https://notion.site/public")]
    /\ UNCHANGED <<token, fs, dirs, clock, pc, args, loc, blocks, result, req,
                   atStart, decision, written, ncalls, fanVars, restVars>>

----------------------------------------------------------------------------
(* The export specification: calls follow one another, the provider        *)
(* changes at any time.                                                    *)

InitialPage(id, title) ==
    [id |-> id, version |-> 1, title |-> title, created_time |-> "2023-12-31",
     last_edited_time |-> Timestamps[1], url |-> "https://www.notion.so/" \o id,
     archived |-> FALSE, in_trash |-> FALSE, public_url |-> JNull,
     content |-> ContentV1]

LastEditedLine(t) == <<"kv", "last_edited_time", <<"quoted", t>>>>

\* what may lie at the output path before the first call, left by something
\* other than the calls of this run
PriorFiles ==
    { << <<"text", "hello">> >>,
      <<>>,
      <<Sentinel, OpenBrace, LastEditedLine(Timestamps[1]), EndMarker>>,
      <<Sentinel, OpenBrace, LastEditedLine(Timestamps[1]), CloseBrace>>,
      <<Sentinel, OpenBrace, <<"kv", "last_edited_time", <<"lit", "undefined">>>>,
        CloseBrace, EndMarker>>,
      <<Sentinel, OpenBrace, CloseBrace, EndMarker>>,
      <<Sentinel, OpenBrace, LastEditedLine(Timestamps[1]), CloseBrace, EndMarker>> }

EmptyFunction == [x \in {} |-> x]

InitialPath == safePathJoin(OutDir, <<getSafeFilename(TitleAB) \o MdExt>>)

\* no recursive run, no getNotionBlocks call and no function application
TreeIdle ==
    /\ run = [entry |-> "none"]
    /\ tasks = <<>>
    /\ loops = <<>>
    /\ trace = <<>>

BlocksIdle ==
    /\ calls = <<>>
    /\ reqLog = <<>>

PureIdle ==
    /\ fnIn = <<>>
    /\ fnOut = <<>>

ImageIdle ==
    /\ conv = <<>>
    /\ imagesDir = [exists |-> FALSE, files |-> {}]
    /\ downloads = <<>>

FanIdle ==
    /\ fanKind = "subpages"
    /\ total = 0
    /\ queue = <<>>
    /\ inProgress = <<>>
    /\ results = <<>>
    /\ status = <<>>
    /\ winner = 0
    /\ lpc = "returned"
    /\ started = <<>>

InitExport ==
    /\ token \in BOOLEAN
    /\ provider = [p \in PageIds |->
                      InitialPage(p, IF p = "p1" THEN TitleAB ELSE TitleN)]
    /\ \/ /\ dirs = {}
          /\ fs = EmptyFunction
       \/ /\ dirs = Ancestors(DatabaseDir(OutDir, DatabaseId))
          /\ \/ fs = EmptyFunction
             \/ \E f \in PriorFiles : fs = (InitialPath :> [lines |-> f, mtime |-> 0])
    /\ clock = 0
    /\ pc = "idle"
    /\ args = [kind |-> "none"]
    /\ loc = NoLoc
    /\ blocks = <<>>
    /\ result = NoResult
    /\ req = NoRequests
    /\ atStart = [fs |-> fs, dirs |-> dirs, written |-> EmptyFunction]
    /\ decision = "none"
    /\ written = EmptyFunction
    /\ ncalls = 0
    /\ FanIdle
    /\ TreeIdle
    /\ BlocksIdle
    /\ PureIdle
    /\ ImageIdle

NextExport ==
    \/ \E custom \in CustomNames : CallPage("p1", custom)
    \/ GetPageOk
    \/ GetPageFail
    \/ CallItem("p2")
    \/ GetBlocksOk
    \/ GetBlocksFail
    \/ Enrich
    \/ ConvertAndWrite
    \/ \E title \in Titles : Edit("p1", title)
    \/ Publish("p1")

Spec == InitExport /\ [][NextExport]_vars

----------------------------------------------------------------------------
(* The fan-out loop of processSubpagesWithConcurrency (subpages) and of    *)
(* exportNotionDatabase (database items): the same loop in both.  The      *)
(* entries of the list are 1..total.  The export of an entry, once         *)
(* started, settles at a time of its own; the loop runs from one await of  *)
(* Promise.race to the next without interruption.                          *)

ConcurrencyLimit == 3

ExportedPath == "exported.md"

\* the result a successful export of an entry resolves with: an ExportResult
\* for a subpage, a DatabaseItemExportResult with the item's properties for a
\* database item
Exported(kind, entry) ==
    IF kind = "subpages"
    THEN [success |-> TRUE, pageId |-> entry, path |-> ExportedPath]
    ELSE [success |-> TRUE, pageId |-> entry, path |-> ExportedPath,
          metadata |-> << <<"Name", JStr(TitleN)>> >>]

\* Tracked without the .catch: a rejection stays a rejection
TrackedNoCatch(kind, entry, outcome) ==
    IF outcome = "fulfilled"
    THEN [state |-> "fulfilled", value |-> Exported(kind, entry)]
    ELSE [state |-> "rejected", value |-> [error |-> "NotionAPIError"]]

\* what the promise the loop tracks resolves or rejects with, given how the
\* export of the entry settled: .then passes the result on, .catch turns a
\* rejection into a failed result
Tracked(kind, entry, outcome) ==
    IF outcome = "fulfilled"
    THEN [state |-> "fulfilled", value |-> Exported(kind, entry)]
    ELSE [state |-> "fulfilled",
          value |-> IF kind = "subpages"
                    THEN [success |-> FALSE, pageId |-> entry, path |-> ""]
                    ELSE [success |-> FALSE, pageId |-> entry, path |-> "",
                          metadata |-> <<>>]]

\* Fill that gives up the entries for which no slot is free
FillAndDrop(q, tracked) ==
    LET n == IF Len(q) < ConcurrencyLimit - Len(tracked)
             THEN Len(q) ELSE ConcurrencyLimit - Len(tracked)
    IN  [queue |-> <<>>, inProgress |-> tracked \o SubSeq(q, 1, n)]

\* the inner while loop: entries are taken from the head of the queue while
\* fewer than ConcurrencyLimit promises are tracked
RECURSIVE Fill(_, _)
Fill(q, tracked) ==
    IF q # <<>> /\ Len(tracked) < ConcurrencyLimit
    THEN Fill(Tail(q), Append(tracked, Head(q)))
    ELSE [queue |-> q, inProgress |-> tracked]

\* inProgress.findIndex((p) => p.then(() => completedResult)): the callback
\* returns a promise, which is truthy for every p, so the index found is that
\* of the first tracked promise, whichever promise completed
FindIndex(tracked, completed) == IF tracked = <<>> THEN -1 ELSE 0

\* inProgress.splice(index, 1) when index !== -1
RemoveCompleted(tracked, completed) ==
    LET index == FindIndex(tracked, completed)
    IN  IF index # -1
        THEN SubSeq(tracked, 1, index) \o SubSeq(tracked, index + 2, Len(tracked))
        ELSE tracked

IsSettled(st, entry) == st[entry] \in {"fulfilled", "rejected"}

\* Promise.race over promises of which some have settled already: the first
\* of them in array order settles the race; 0 when none has settled yet
RaceWinner(tracked, st) ==
    LET settled == {k \in DOMAIN tracked : IsSettled(st, tracked[k])}
    IN  IF settled = {} THEN 0
        ELSE tracked[CHOOSE k \in settled : \A j \in settled : k <= j]

\* one pass of the outer loop from its top to the await of Promise.race, or
\* to the return when the queue and the tracked promises are both empty
LoopFrom(q, tracked) ==
    LET f == Fill(q, tracked)
    IN  /\ queue' = f.queue
        /\ inProgress' = f.inProgress
        /\ started' = started \o SubSeq(q, 1, Len(q) - Len(f.queue))
        /\ status' = [e \in DOMAIN status |->
                         IF e \in Range(SubSeq(q, 1, Len(q) - Len(f.queue)))
                         THEN "running" ELSE status[e]]
        /\ IF q # <<>> \/ tracked # <<>>
           THEN /\ lpc' = "racing"
                /\ winner' = RaceWinner(f.inProgress, status)
           ELSE /\ lpc' = "returned"
                /\ winner' = 0

\* the loop is entered
FanStart ==
    /\ lpc = "start"
    /\ LoopFrom(queue, inProgress)
    /\ UNCHANGED <<fanKind, total, results, exportVars, restVars>>

\* the export of a started entry resolves or rejects
Settle(entry, outcome) ==
    /\ status[entry] = "running"
    /\ status' = [status EXCEPT ![entry] = outcome]
    /\ winner' = IF lpc = "racing" /\ winner = 0 /\ entry \in Range(inProgress)
                 THEN entry ELSE winner
    /\ UNCHANGED <<fanKind, total, queue, inProgress, results, lpc, started,
                   exportVars, restVars>>

\* the await of Promise.race is resumed: the result is recorded, a promise is
\* removed, and the loop goes on to its next await or returns
Resume ==
    /\ lpc = "racing"
    /\ winner # 0
    /\ LET completed == Tracked(fanKind, winner, status[winner])
       IN  IF completed.state = "rejected"
           THEN /\ lpc' = "threw"
                /\ winner' = 0
                /\ UNCHANGED <<queue, inProgress, results, status, started>>
           ELSE /\ results' = Append(results, completed.value)
                /\ LoopFrom(queue, RemoveCompleted(inProgress, completed.value))
    /\ UNCHANGED <<fanKind, total, exportVars, restVars>>

ExportIdle ==
    /\ token = TRUE
    /\ provider = [p \in PageIds |-> InitialPage(p, TitleN)]
    /\ fs = EmptyFunction
    /\ dirs = {}
    /\ clock = 0
    /\ pc = "idle"
    /\ args = [kind |-> "none"]
    /\ loc = NoLoc
    /\ blocks = <<>>
    /\ result = NoResult
    /\ req = NoRequests
    /\ atStart = [fs |-> fs, dirs |-> dirs, written |-> EmptyFunction]
    /\ decision = "none"
    /\ written = EmptyFunction
    /\ ncalls = 0

\* processSubpagesWithConcurrency is called with at least one subpage;
\* the loop of exportNotionDatabase runs for any number of queried pages
InitFan ==
    /\ fanKind \in {"subpages", "items"}
    /\ total \in 0..MaxItems
    /\ fanKind = "subpages" => total >= 1
    /\ queue = [i \in 1..total |-> i]
    /\ inProgress = <<>>
    /\ results = <<>>
    /\ status = [i \in 1..total |-> "queued"]
    /\ winner = 0
    /\ lpc = "start"
    /\ started = <<>>
    /\ ExportIdle
    /\ TreeIdle
    /\ BlocksIdle
    /\ PureIdle
    /\ ImageIdle

NextFan ==
    \/ FanStart
    \/ \E entry \in 1..total, outcome \in {"fulfilled", "rejected"} : Settle(entry, outcome)
    \/ Resume

SpecFan == InitFan /\ [][NextFan]_vars

\* the loop with its scheduling: a loop that can run does run (it is entered
\* by its caller, and the await of a settled Promise.race is resumed by the
\* event loop), and every started export settles in the end
FanFairness ==
    /\ WF_vars(FanStart)
    /\ WF_vars(Resume)
    /\ \A entry \in 1..MaxItems :
           WF_vars(/\ entry \in 1..total
                   /\ \E outcome \in {"fulfilled", "rejected"} :
                          Settle(entry, outcome))

SpecFanFair == SpecFan /\ FanFairness

----------------------------------------------------------------------------
(* One recursive run: an entry point (exportNotionResource,                *)
(* exportNotionPage or exportNotionDatabase) and the exports it starts     *)
(* over a root page with two subpages and a child database of two items.   *)
(* The code an export runs between two answers of the provider is one      *)
(* action.  An operator with the suffix In takes the state of the run and  *)
(* gives the state after the code it names has run up to its next await.   *)

TreeNodes == TreePages \cup Range(DatabaseIds)

\* the blocks of the root page, given the titles of the two subpages
RootContent(t1, t2) ==
    <<Paragraph("b1", "Test content"), ChildPage(SubpageIds[1], t1),
      ChildPage(SubpageIds[2], t2), ChildDatabase(DatabaseId)>>

\* the pages the run is made over: the root page with its two subpages and
\* its child database; the root page with two child databases; the root
\* page with a child database inside a toggle, and a child database in the
\* first item of the database
RootShapes == {"subpages", "databases", "nested"}

RootBlocks(shape, t1, t2) ==
    CASE shape = "subpages" -> RootContent(t1, t2)
      [] shape = "databases" ->
            <<Paragraph("b1", "Test content"), ChildDatabase(DatabaseId),
              ChildDatabase(SecondDatabaseId)>>
      [] OTHER ->
            <<Paragraph("b1", "Test content"),
              Toggle("g1", <<ChildDatabase(DatabaseId)>>)>>

ItemBlocks(shape) ==
    IF shape = "nested"
    THEN <<Paragraph("b1", "Test content"), ChildDatabase(SecondDatabaseId)>>
    ELSE ContentV1

\* what an earlier run has left in the output directory: nothing, the file
\* of the root page, or the file of the first item of the database
PriorRuns == {"none", "root", "item"}

\* what databases.retrieve may answer to isDatabase
RetrieveOutcomes == {"ok", "object_not_found", "validation_error", "unauthorized"}

\* the query string given to exportNotionResource: none, JSON, or no JSON
QueryStrings == {"none", "valid", "invalid"}

NoTask == [kind |-> "none", pc |-> "none", dir |-> <<>>, recursive |-> FALSE,
           custom |-> NoCustom, loc |-> NoLoc, blocks |-> <<>>, childDb |-> 0,
           result |-> NoResult]

NoLoop == [state |-> "none", queue |-> <<>>, inProgress |-> <<>>,
           results |-> <<>>, winner |-> "none"]

NoTrace == [requests |-> 0, started |-> <<>>, writes |-> <<>>, fetchFailed |-> {}]

IsRunning(t) == t.pc \notin {"none", "done", "failed"}

HasSettled(t) == t.pc \in {"done", "failed"}

\* the state of the run the operators below work on
Now == [tasks |-> tasks, loops |-> loops, trace |-> trace, fs |-> fs,
        dirs |-> dirs, clock |-> clock]

Commit(W) ==
    /\ tasks' = W.tasks
    /\ loops' = W.loops
    /\ trace' = W.trace
    /\ fs' = W.fs
    /\ dirs' = W.dirs
    /\ clock' = W.clock

\* one more request goes to the provider
RequestIn(W) == [W EXCEPT !.trace.requests = @ + 1]

\* the export of node n settles: its promise resolves or rejects, and a
\* Promise.race that tracks it and has no winner yet is won by it
FinishIn(W, n, how, res) ==
    [W EXCEPT
        !.tasks[n].pc = how,
        !.tasks[n].result = res,
        !.loops = [o \in DOMAIN W.loops |->
                      IF /\ W.loops[o].state = "racing"
                         /\ W.loops[o].winner = "none"
                         /\ n \in Range(W.loops[o].inProgress)
                      THEN [W.loops[o] EXCEPT !.winner = n]
                      ELSE W.loops[o]]]

\* FetchFailedIn where the error is swallowed: the export goes on with no
\* blocks
FetchFailureSwallowedIn(W, n) ==
    [W EXCEPT !.trace.fetchFailed = @ \cup {n},
              !.tasks[n].pc = "convert",
              !.tasks[n].blocks = <<>>]

\* a request of the export of n was answered with an error: the function of
\* notion.ts throws a NotionAPIError, and the catch of the export rethrows it
FetchFailedIn(W, n) ==
    FinishIn([W EXCEPT !.trace.fetchFailed = @ \cup {n}],
             n, "failed", Rejected("NotionAPIError"))

\* StartPageIn where the page is requested before the token is looked at
StartPageInFetchFirst(W, n, dir, recursive, custom) ==
    LET t == [NoTask EXCEPT !.kind = "page", !.pc = "getPage", !.dir = dir,
                            !.recursive = recursive, !.custom = custom]
    IN  RequestIn([W EXCEPT !.tasks[n] = t, !.trace.started = Append(@, n)])

\* exportNotionPage(n, dir, recursive, custom) is called: it runs to the
\* token check, and past it to the request of getNotionPage
StartPageIn(W, n, dir, recursive, custom) ==
    LET t == [NoTask EXCEPT !.kind = "page", !.pc = "getPage", !.dir = dir,
                            !.recursive = recursive, !.custom = custom]
        W1 == [W EXCEPT !.tasks[n] = t, !.trace.started = Append(@, n)]
    IN  IF ~token
        THEN FinishIn(W1, n, "failed", Rejected("NotionTokenError"))
        ELSE RequestIn(W1)

\* exportNotionDatabase(n, dir, recursive) is called: the token check, and
\* past it the request of getDatabase
StartDatabaseIn(W, n, dir, recursive) ==
    LET t == [NoTask EXCEPT !.kind = "database", !.pc = "getDatabase",
                            !.dir = dir, !.recursive = recursive]
        W1 == [W EXCEPT !.tasks[n] = t, !.trace.started = Append(@, n)]
    IN  IF ~token
        THEN FinishIn(W1, n, "failed", Rejected("NotionTokenError"))
        ELSE RequestIn(W1)

\* exportDatabaseItem(notion, page, databaseDir, recursive) is called: it
\* runs to its update check, and returns there or requests the blocks
StartItemIn(W, n, dir, recursive) ==
    LET l == Locals(provider[n], dir, NoCustom)
        t == [NoTask EXCEPT !.kind = "item", !.pc = "getBlocks", !.dir = dir,
                            !.recursive = recursive, !.loc = l]
        a == [kind |-> "item", pageId |-> n]
        W1 == [W EXCEPT !.tasks[n] = t, !.trace.started = Append(@, n)]
    IN  IF ~NeedsUpdate(W.fs, l)
        THEN FinishIn(W1, n, "done", Success(a, l))
        ELSE RequestIn(W1)

\* getSubpages / getChildDatabases: the ids of the child_page and of the
\* child_database blocks, in block order
getSubpages(bs) ==
    LET found == SelectSeq(bs, LAMBDA b : b.type = "child_page")
    IN  [k \in DOMAIN found |-> found[k].id]

getChildDatabases(bs) ==
    LET found == SelectSeq(bs, LAMBDA b : b.type = "child_database")
    IN  [k \in DOMAIN found |-> found[k].id]

\* SubpageDir named after the page title also when a custom name is given
SubpageDirByTitle(t) ==
    safePathJoin(t.dir, <<getSafeFilename(t.loc.pageTitle)>>)

\* the directory of the subpages of the export t: the custom file name if
\* one was given, the page title otherwise
SubpageDir(t) ==
    safePathJoin(t.dir, <<ResolveFilename(t.loc.pageTitle, t.custom)>>)

\* what the promise tracked for node n has resolved with, by the kind of
\* the loop that tracks it
TrackedResult(W, kind, n) ==
    IF W.tasks[n].pc = "done"
    THEN W.tasks[n].result
    ELSE Tracked(kind, n, "rejected").value

\* Promise.race over the tracked promises: the first in array order of
\* those that have settled already, none when all are pending
TreeRace(tracked, ts) ==
    LET settled == {k \in DOMAIN tracked : HasSettled(ts[tracked[k]])}
    IN  IF settled = {} THEN "none"
        ELSE tracked[CHOOSE k \in settled : \A j \in settled : k <= j]

\* the loop of owner starts the export of entry n
StartChildIn(W, owner, n) ==
    IF W.tasks[owner].kind = "database"
    THEN StartItemIn(W, n, DatabaseDir(W.tasks[owner].dir, owner),
                     W.tasks[owner].recursive)
    ELSE StartPageIn(W, n, SubpageDir(W.tasks[owner]), TRUE, NoCustom)

RECURSIVE StartAllIn(_, _, _)
StartAllIn(W, owner, entries) ==
    IF entries = <<>> THEN W
    ELSE StartAllIn(StartChildIn(W, owner, Head(entries)), owner, Tail(entries))

\* ChildDatabasesIn where the failure of a child database ends the loop
ChildDatabasesInUntilFailure(W, n, k) ==
    LET t == W.tasks[n]
        dbs == getChildDatabases(t.blocks)
        a == [kind |-> t.kind, pageId |-> n]
    IN  IF k > 1 /\ W.tasks[dbs[k - 1]].pc = "failed"
        THEN FinishIn(W, n, "failed", W.tasks[dbs[k - 1]].result)
        ELSE IF k > Len(dbs)
        THEN FinishIn(W, n, "done", Success(a, t.loc))
        ELSE StartDatabaseIn([W EXCEPT !.tasks[n].pc = "childDb",
                                       !.tasks[n].childDb = k],
                             dbs[k], t.dir, TRUE)

\* ChildDatabasesIn with the subpage directory as the destination
ChildDatabasesInSubdirectory(W, n, k) ==
    LET t == W.tasks[n]
        dbs == getChildDatabases(t.blocks)
        a == [kind |-> t.kind, pageId |-> n]
    IN  IF k > Len(dbs)
        THEN FinishIn(W, n, "done", Success(a, t.loc))
        ELSE StartDatabaseIn([W EXCEPT !.tasks[n].pc = "childDb",
                                       !.tasks[n].childDb = k],
                             dbs[k], SubpageDir(t), TRUE)

\* the for loop over the child databases, from child database k on: the
\* export of the next one is awaited, or the export of n returns
ChildDatabasesIn(W, n, k) ==
    LET t == W.tasks[n]
        dbs == getChildDatabases(t.blocks)
        a == [kind |-> t.kind, pageId |-> n]
    IN  IF k > Len(dbs)
        THEN FinishIn(W, n, "done", Success(a, t.loc))
        ELSE StartDatabaseIn([W EXCEPT !.tasks[n].pc = "childDb",
                                       !.tasks[n].childDb = k],
                             dbs[k], t.dir, TRUE)

\* what follows the loop in its owner: exportNotionDatabase returns its
\* results; processSubpagesAndDatabases goes on to the child databases
AfterLoopIn(W, owner) ==
    IF W.tasks[owner].kind = "database"
    THEN FinishIn(W, owner, "done",
                  [kind |-> "resolved", results |-> W.loops[owner].results])
    ELSE ChildDatabasesIn(W, owner, 1)

\* the loop of owner from the top of its outer while to its next await of
\* Promise.race, or past its end
LoopIn(W, owner) ==
    LET lp == W.loops[owner]
        f == Fill(lp.queue, lp.inProgress)
        admitted == SubSeq(lp.queue, 1, Len(lp.queue) - Len(f.queue))
        W1 == [W EXCEPT !.loops[owner] =
                   [lp EXCEPT !.state = "filling", !.queue = f.queue,
                              !.inProgress = f.inProgress, !.winner = "none"]]
        W2 == StartAllIn(W1, owner, admitted)
    IN  IF f.inProgress # <<>>
        THEN [W2 EXCEPT !.loops[owner].state = "racing",
                        !.loops[owner].winner = TreeRace(f.inProgress, W2.tasks)]
        ELSE AfterLoopIn([W2 EXCEPT !.loops[owner].state = "returned"], owner)

\* processSubpagesAndDatabases of the export of n, which has written its file
ProcessSubpagesIn(W, n) ==
    LET t == W.tasks[n]
        subpages == getSubpages(t.blocks)
    IN  IF subpages = <<>>
        THEN ChildDatabasesIn(W, n, 1)
        ELSE LoopIn([W EXCEPT
                        !.tasks[n].pc = "fanout",
                        !.dirs = ensureDirectoryExists(@, SubpageDir(t)),
                        !.loops[n] = [NoLoop EXCEPT !.queue = subpages]],
                    n)

\* SkippedIn where a recursive export goes on to the subpages and child
\* databases of the page although its file is up to date
SkippedThenProcessedIn(W, n, a, l) ==
    IF W.tasks[n].recursive
    THEN ProcessSubpagesIn([W EXCEPT !.tasks[n].blocks = l.page.content], n)
    ELSE FinishIn(W, n, "done", Success(a, l))

\* the update check of exportNotionPage finds the file up to date: the
\* export returns the existing path
SkippedIn(W, n, a, l) == FinishIn(W, n, "done", Success(a, l))

\* what an action of the run leaves alone besides the run's own state
treeFrame == <<token, provider, pc, args, loc, blocks, result, req, atStart,
               decision, written, ncalls, fanVars, blockVars, pureVars,
               imageVars>>

MetaName == <<"_", "m", "e", "t", "a", ".", "m", "d">>

\* the text of _meta.md: the title and the id of the database
MetaFileText(n) == << <<"h1", "Database">>, <<"text", n>> >>

\* a write of the run: the file, and who wrote which path after how many
\* exports had been started
WriteIn(W, n, path, text) ==
    [W EXCEPT !.clock = @ + 1,
              !.fs = WriteFile(@, path, text, W.clock + 1),
              !.trace.writes = Append(@, [path |-> path, node |-> n,
                                          started |-> Len(W.trace.started)])]

\* WrittenIn where the subpages and child databases are processed first
ProcessedThenWrittenIn(W, n, path, text) ==
    LET a == [kind |-> W.tasks[n].kind, pageId |-> n]
    IN  IF W.tasks[n].recursive
        THEN WriteIn(ProcessSubpagesIn(W, n), n, path, text)
        ELSE FinishIn(WriteIn(W, n, path, text), n, "done",
                      Success(a, W.tasks[n].loc))

\* the file of the export of n is written; a recursive export goes on to
\* its subpages and child databases, any other returns
WrittenIn(W, n, path, text) ==
    LET a == [kind |-> W.tasks[n].kind, pageId |-> n]
    IN  IF W.tasks[n].recursive
        THEN ProcessSubpagesIn(WriteIn(W, n, path, text), n)
        ELSE FinishIn(WriteIn(W, n, path, text), n, "done",
                      Success(a, W.tasks[n].loc))

\* exportNotionResource(id, OutDir, recursive, undefined, query) is called
CallResource(id, recursive, query) ==
    /\ run.pc = "idle"
    /\ IF ~token
       THEN /\ run' = [run EXCEPT !.entry = "resource", !.id = id,
                                  !.recursive = recursive, !.query = query,
                                  !.pc = "failed",
                                  !.result = Rejected("NotionTokenError")]
            /\ Commit(Now)
       ELSE /\ run' = [run EXCEPT !.entry = "resource", !.id = id,
                                  !.recursive = recursive, !.query = query,
                                  !.pc = "isDatabase"]
            /\ Commit(RequestIn(Now))
    /\ UNCHANGED treeFrame

\* isDatabase where every error of databases.retrieve means "a page"
isDatabaseAnyErrorIsPage(outcome) ==
    IF outcome = "ok" THEN "yes" ELSE "no"

\* isDatabase: true when databases.retrieve succeeds, false when it fails
\* with object_not_found or validation_error, and any other error rethrown
isDatabase(outcome) ==
    CASE outcome = "ok" -> "yes"
      [] outcome \in {"object_not_found", "validation_error"} -> "no"
      [] OTHER -> "throw"

\* databases.retrieve answers isDatabase: a database, not a database, or an
\* error that is rethrown; for a database the query string is parsed
IsDatabaseReturns(outcome) ==
    /\ run.pc = "isDatabase"
    /\ outcome = "ok" => run.id = DatabaseId
    /\ LET isDb == isDatabase(outcome)
           r == [run EXCEPT !.retrieve = outcome, !.isDb = isDb]
       IN  CASE isDb = "yes" /\ run.query = "invalid" ->
                    /\ run' = [r EXCEPT !.pc = "failed",
                                        !.result = Rejected("InvalidQueryJSON")]
                    /\ Commit(Now)
             [] isDb = "yes" /\ run.query # "invalid" ->
                    /\ run' = [r EXCEPT !.pc = "running"]
                    /\ Commit(StartDatabaseIn(Now, run.id, OutDir, run.recursive))
             [] isDb = "no" ->
                    /\ run' = [r EXCEPT !.pc = "running"]
                    /\ Commit(StartPageIn(Now, run.id, OutDir, run.recursive, NoCustom))
             [] OTHER ->
                    /\ run' = [r EXCEPT !.pc = "failed", !.result = Rejected(outcome)]
                    /\ Commit(Now)
    /\ UNCHANGED treeFrame

\* exportNotionPage(RootId, OutDir, recursive, custom) is called
CallRootPage(recursive, custom) ==
    /\ run.pc = "idle"
    /\ run' = [run EXCEPT !.entry = "page", !.id = RootId,
                          !.recursive = recursive, !.pc = "running"]
    /\ Commit(StartPageIn(Now, RootId, OutDir, recursive, custom))
    /\ UNCHANGED treeFrame

\* exportNotionDatabase(DatabaseId, OutDir, recursive) is called
CallRootDatabase(recursive) ==
    /\ run.pc = "idle"
    /\ run' = [run EXCEPT !.entry = "database", !.id = DatabaseId,
                          !.recursive = recursive, !.pc = "running"]
    /\ Commit(StartDatabaseIn(Now, DatabaseId, OutDir, recursive))
    /\ UNCHANGED treeFrame

\* getNotionPage resolves for the export of n: the update check, then the
\* skip return or the request of the blocks
TGetPageOk(n) ==
    /\ tasks[n].pc = "getPage"
    /\ n \in TreePages
    /\ LET t == tasks[n]
           l == Locals(provider[n], t.dir, t.custom)
           a == [kind |-> "page", pageId |-> n]
           W1 == [Now EXCEPT !.tasks[n].loc = l]
       IN  IF ~NeedsUpdate(fs, l)
           THEN Commit(SkippedIn(W1, n, a, l))
           ELSE Commit(RequestIn([W1 EXCEPT !.tasks[n].pc = "getBlocks"]))
    /\ UNCHANGED <<run, treeFrame>>

\* getNotionPage rejects; the catch rethrows
TGetPageFail(n) ==
    /\ tasks[n].pc = "getPage"
    /\ Commit(FetchFailedIn(Now, n))
    /\ UNCHANGED <<run, treeFrame>>

\* getNotionBlocks resolves: a page with child databases goes on to enrich
\* them, any other export to the conversion
TGetBlocksOk(n) ==
    /\ tasks[n].pc = "getBlocks"
    /\ LET bs == provider[n].content
       IN  Commit([Now EXCEPT
               !.tasks[n].blocks = bs,
               !.tasks[n].pc =
                   IF /\ tasks[n].kind = "page"
                      /\ \E i \in DOMAIN bs : HoldsDatabase(bs[i])
                   THEN "enrich" ELSE "convert"])
    /\ UNCHANGED <<run, treeFrame>>

\* getNotionBlocks rejects; the catch rethrows
TGetBlocksFail(n) ==
    /\ tasks[n].pc = "getBlocks"
    /\ Commit(FetchFailedIn(Now, n))
    /\ UNCHANGED <<run, treeFrame>>

\* enrichChildDatabaseBlocks returns
TEnrich(n) ==
    /\ tasks[n].pc = "enrich"
    /\ \E outcome \in [DOMAIN tasks[n].blocks -> {"ok", "getFails", "queryFails"}] :
           /\ \A i \in DOMAIN tasks[n].blocks :
                  ~HoldsDatabase(tasks[n].blocks[i]) => outcome[i] = "ok"
           /\ Commit([Now EXCEPT
                  !.tasks[n].blocks = EnrichedBlocks(@, outcome, provider),
                  !.tasks[n].pc = "convert",
                  !.trace.requests = @ + EnrichRequests(tasks[n].blocks, outcome)])
    /\ UNCHANGED <<run, treeFrame>>

\* convertBlocksToMarkdown resolves: the file is written, and a recursive
\* export goes on to its subpages and child databases
TConvertAndWrite(n) ==
    /\ tasks[n].pc = "convert"
    /\ LET t == tasks[n]
           W1 == [Now EXCEPT !.dirs = IF t.kind = "page"
                                      THEN ensureDirectoryExists(@, t.dir)
                                      ELSE @]
       IN  Commit(WrittenIn(W1, n, t.loc.path,
                            IF t.kind = "page" THEN PageFileText(t.loc, t.blocks)
                                               ELSE ItemFileText(t.loc, t.blocks)))
    /\ UNCHANGED <<run, treeFrame>>

\* getDatabase resolves for exportNotionDatabase: the database directory is
\* made, _meta.md is written, and the database is queried
TGetDatabaseOk(n) ==
    /\ tasks[n].pc = "getDatabase"
    /\ n \in Range(DatabaseIds)
    /\ LET databaseDir == DatabaseDir(tasks[n].dir, n)
           W1 == [Now EXCEPT !.dirs = ensureDirectoryExists(@, databaseDir),
                             !.tasks[n].pc = "query"]
           W2 == WriteIn(W1, n, safePathJoin(databaseDir, <<MetaName>>),
                         MetaFileText(n))
       IN  Commit(RequestIn(W2))
    /\ UNCHANGED <<run, treeFrame>>

\* getDatabase rejects; the catch rethrows
TGetDatabaseFail(n) ==
    /\ tasks[n].pc = "getDatabase"
    /\ Commit(FetchFailedIn(Now, n))
    /\ UNCHANGED <<run, treeFrame>>

\* queryDatabase resolves with the pages of the database: the loop over
\* them is entered
TQueryOk(n) ==
    /\ tasks[n].pc = "query"
    /\ Commit(LoopIn([Now EXCEPT
                         !.tasks[n].pc = "fanout",
                         !.loops[n] = [NoLoop EXCEPT
                                          !.queue = QueriedIdsOf(provider, n)]],
                     n))
    /\ UNCHANGED <<run, treeFrame>>

\* queryDatabase rejects; the catch rethrows
TQueryFail(n) ==
    /\ tasks[n].pc = "query"
    /\ Commit(FetchFailedIn(Now, n))
    /\ UNCHANGED <<run, treeFrame>>

\* the await of Promise.race in the loop of owner is resumed
TResume(owner) ==
    /\ loops[owner].state = "racing"
    /\ loops[owner].winner # "none"
    /\ LET lp == loops[owner]
           kind == IF tasks[owner].kind = "database" THEN "items" ELSE "subpages"
           completed == TrackedResult(Now, kind, lp.winner)
       IN  Commit(LoopIn([Now EXCEPT
               !.loops[owner].results = Append(@, completed),
               !.loops[owner].inProgress = RemoveCompleted(@, completed)],
               owner))
    /\ UNCHANGED <<run, treeFrame>>

\* the export of a child database has settled: its owner goes on to the
\* next child database, or returns
TChildDbReturn(n) ==
    /\ tasks[n].pc = "childDb"
    /\ HasSettled(tasks[getChildDatabases(tasks[n].blocks)[tasks[n].childDb]])
    /\ Commit(ChildDatabasesIn(Now, n, tasks[n].childDb + 1))
    /\ UNCHANGED <<run, treeFrame>>

----------------------------------------------------------------------------
(* The specification of the recursive run *)

TreePage(n, title, content) == [InitialPage(n, title) EXCEPT !.content = content]

NoRun == [entry |-> "none", id |-> "none", recursive |-> FALSE,
          query |-> "none", pc |-> "idle", retrieve |-> "none",
          isDb |-> "unknown",
          result |-> NoResult]

\* no call of the export specification is in progress
CallIdle ==
    /\ pc = "idle"
    /\ args = [kind |-> "none"]
    /\ loc = NoLoc
    /\ blocks = <<>>
    /\ result = NoResult
    /\ req = NoRequests
    /\ atStart = [fs |-> EmptyFunction, dirs |-> {}, written |-> EmptyFunction]
    /\ decision = "none"
    /\ written = EmptyFunction
    /\ ncalls = 0

\* the files of an earlier run, written when the pages were what they are
PriorFile(prov, prior) ==
    IF prior = "root"
    THEN LET l == Locals(prov[RootId], OutDir, NoCustom)
         IN  [path |-> l.path, dir |-> OutDir,
              text |-> PageFileText(l, prov[RootId].content)]
    ELSE LET dir == DatabaseDir(OutDir, DatabaseId)
             l == Locals(prov[ItemIds[1]], dir, NoCustom)
         IN  [path |-> l.path, dir |-> dir,
              text |-> ItemFileText(l, prov[ItemIds[1]].content)]

InitTree ==
    /\ token \in BOOLEAN
    /\ \E t2 \in Titles, u2 \in Titles, shape \in RootShapes, prior \in PriorRuns :
           /\ shape # "subpages" => t2 = TitleN /\ u2 = TitleAB
           /\ prior = "root" => shape = "subpages" /\ t2 = TitleN /\ u2 = TitleAB
           /\ prior = "item" => shape = "nested"
           /\ provider = [n \in TreePages |->
                  CASE n = RootId ->
                           TreePage(n, TitleR, RootBlocks(shape, TitleAB, t2))
                    [] n = SubpageIds[1] -> TreePage(n, TitleAB, ContentV1)
                    [] n = SubpageIds[2] -> TreePage(n, t2, ContentV1)
                    [] n = ItemIds[1] -> TreePage(n, TitleN, ItemBlocks(shape))
                    [] n = ItemIds[2] -> TreePage(n, u2, ContentV1)]
           /\ IF prior = "none"
              THEN fs = EmptyFunction /\ dirs = {}
              ELSE LET f == PriorFile(provider, prior)
                   IN  /\ fs = WriteFile(EmptyFunction, f.path, f.text, 0)
                       /\ dirs = ensureDirectoryExists({}, f.dir)
    /\ clock = 0
    /\ run = NoRun
    /\ tasks = [n \in TreeNodes |-> NoTask]
    /\ loops = [n \in TreeNodes |-> NoLoop]
    /\ trace = NoTrace
    /\ CallIdle
    /\ FanIdle
    /\ BlocksIdle
    /\ PureIdle
    /\ ImageIdle

NextTree ==
    \/ \E id \in {RootId, DatabaseId}, recursive \in BOOLEAN, query \in QueryStrings :
           (id = RootId => query = "none") /\ CallResource(id, recursive, query)
    \/ \E outcome \in RetrieveOutcomes : IsDatabaseReturns(outcome)
    \/ \E recursive \in BOOLEAN, custom \in CustomNames :
           CallRootPage(recursive, custom)
    \/ \E recursive \in BOOLEAN : CallRootDatabase(recursive)
    \/ \E n \in TreeNodes : TGetPageOk(n)
    \/ \E n \in TreeNodes : TGetPageFail(n)
    \/ \E n \in TreeNodes : TGetBlocksOk(n)
    \/ \E n \in TreeNodes : TGetBlocksFail(n)
    \/ \E n \in TreeNodes : TEnrich(n)
    \/ \E n \in TreeNodes : TConvertAndWrite(n)
    \/ \E n \in TreeNodes : TGetDatabaseOk(n)
    \/ \E n \in TreeNodes : TGetDatabaseFail(n)
    \/ \E n \in TreeNodes : TQueryOk(n)
    \/ \E n \in TreeNodes : TQueryFail(n)
    \/ \E owner \in TreeNodes : TResume(owner)
    \/ \E n \in TreeNodes : TChildDbReturn(n)

SpecTree == InitTree /\ [][NextTree]_vars

----------------------------------------------------------------------------
(* getNotionBlocks: one call for the blocks of a page, and the calls that  *)
(* processNestedBlocks makes for the blocks with children.  The provider   *)
(* lists the children of a block in result pages linked by cursors.  The   *)
(* code a call runs between two answers of the provider is one action; an  *)
(* operator with the suffix In takes the calls and the request log and     *)
(* gives them after the code it names has run up to its next await.        *)

BATCH_SIZE == 5

\* the top-level blocks of the page, and the blocks in one result page
NumBlocks == 7
PageSize == 4

Undefined == "undefined"
Null == "null"

\* x ?? undefined
NullishToUndefined(x) == IF x \in {Null, Undefined} THEN Undefined ELSE x

\* if (cursor), while (cursor)
Truthy(x) == x \notin {Undefined, Null, ""}

Block(id, has_children) == [id |-> id, has_children |-> has_children]

TopBlock(i) == "t" \o ToString(i)

NestedId == "u1"

\* the blocks getNotionBlocks is called for
Fetchable == {RootId, NestedId} \cup {TopBlock(i) : i \in 1..NumBlocks}

\* a listing cut into result pages of a size; an empty listing is one empty
\* result page
RECURSIVE ResultPages(_, _)
ResultPages(bs, size) ==
    IF Len(bs) <= size THEN <<bs>>
    ELSE <<SubSeq(bs, 1, size)>> \o ResultPages(SubSeq(bs, size + 1, Len(bs)), size)

\* what the provider lists: the page has NumBlocks blocks, all with children
\* but the one at position leaf; the first of them has two children in two
\* result pages, of which the first has a child; the others have one child
Listing(leaf) ==
    [id \in Fetchable |->
        CASE id = RootId ->
                 ResultPages([i \in 1..NumBlocks |-> Block(TopBlock(i), i # leaf)],
                             PageSize)
          [] id = TopBlock(1) ->
                 ResultPages(<<Block(NestedId, TRUE), Block("u2", FALSE)>>, 1)
          [] id = NestedId -> ResultPages(<<Block("v1", FALSE)>>, PageSize)
          [] OTHER -> ResultPages(<<Block("w" \o id, FALSE)>>, PageSize)]

\* the cursor the provider hands out for result page k, and the result page
\* a cursor stands for
CursorOf(k) == "cursor" \o ToString(k)

PageOfCursor(cursor, pages) == CHOOSE k \in DOMAIN pages : CursorOf(k) = cursor

\* notion.blocks.children.list answers a request
ListChildren(prov, params) ==
    LET pages == prov[params.block_id]
        k == IF "start_cursor" \in DOMAIN params
             THEN PageOfCursor(params.start_cursor, pages) ELSE 1
    IN  [results |-> pages[k],
         next_cursor |-> IF k < Len(pages) THEN CursorOf(k + 1) ELSE Null]

\* params: start_cursor is set only for a cursor
ListParams(blockId, cursor) ==
    IF Truthy(cursor)
    THEN [block_id |-> blockId, start_cursor |-> cursor]
    ELSE [block_id |-> blockId]

NoCall == [pc |-> "none", parent |-> "none", cursor |-> Undefined,
           blocks |-> <<>>, received |-> <<>>, i |-> 0, listFailed |-> FALSE]

InFlight(c) == c.pc \in {"listing", "nested"}

CallSettled(c) == c.pc \in {"done", "failed"}

NowBlocks == [calls |-> calls, reqLog |-> reqLog]

CommitBlocks(B) ==
    /\ calls' = B.calls
    /\ reqLog' = B.reqLog

\* blocks.push(...newBlocks) with the new blocks put in front
PushAllFront(bs, newBlocks) == newBlocks \o bs

\* blocks.push(...newBlocks)
PushAll(bs, newBlocks) == bs \o newBlocks

\* the requests sent for the children of a block, in order
RequestsFor(log, id) == SelectSeq(log, LAMBDA q : q.block_id = id)

\* the call for id sends its next list request
SendIn(B, id) ==
    [B EXCEPT !.reqLog = Append(@, ListParams(id, B.calls[id].cursor))]

\* getNotionBlocks(notion, id) is called: it runs to its first request
StartCallIn(B, id, parent) ==
    SendIn([B EXCEPT !.calls[id] = [NoCall EXCEPT !.pc = "listing",
                                                  !.parent = parent]], id)

\* blocks.slice(i, i + BATCH_SIZE).filter(has_children): the ids of the
\* blocks of the batch at i that get a fetch
BatchPromises(bs, i) ==
    LET upto == IF i + BATCH_SIZE < Len(bs) THEN i + BATCH_SIZE ELSE Len(bs)
        batch == SubSeq(bs, i + 1, upto)
        withChildren == SelectSeq(batch, LAMBDA b : b.has_children)
    IN  [k \in DOMAIN withChildren |-> withChildren[k].id]

\* Promise.all where one settled promise is enough
BatchSettledAny(B, id) ==
    LET ps == BatchPromises(B.calls[id].blocks, B.calls[id].i)
    IN  ps = <<>> \/ \E k \in DOMAIN ps : CallSettled(B.calls[ps[k]])

\* await Promise.all(promises): every fetch of the batch has settled
BatchSettled(B, id) ==
    LET ps == BatchPromises(B.calls[id].blocks, B.calls[id].i)
    IN  \A k \in DOMAIN ps : CallSettled(B.calls[ps[k]])

\* the callback of map where the children fetched are never attached
FetchedChildrenDropped(c) == <<>>

\* the callback of map: the children fetched, or none when the fetch failed
FetchedChildren(c) == IF c.pc = "done" THEN c.blocks ELSE <<>>

\* Attach that gives the children to every block of the batch
AttachToAll(bs, child, children) ==
    [k \in DOMAIN bs |->
        [f \in DOMAIN bs[k] \cup {"children"} |->
            IF f = "children" THEN children ELSE bs[k][f]]]

\* block.children = ... for the block with the id of the child
Attach(bs, child, children) ==
    [k \in DOMAIN bs |->
        IF bs[k].id = child
        THEN [f \in DOMAIN bs[k] \cup {"children"} |->
                 IF f = "children" THEN children ELSE bs[k][f]]
        ELSE bs[k]]

\* the callbacks of map run to their await: the fetches of a batch start
RECURSIVE StartCallsIn(_, _, _)
StartCallsIn(B, parent, ids) ==
    IF ids = <<>> THEN B
    ELSE StartCallsIn(StartCallIn(B, Head(ids), parent), parent, Tail(ids))

RECURSIVE NestedIn(_, _)
RECURSIVE SettledIn(_, _, _)

\* getNotionBlocks returns its blocks or throws: its promise settles, and
\* the callback of the call that awaits it goes on
ReturnIn(B, id, how) ==
    LET B1 == [B EXCEPT !.calls[id].pc = how]
    IN  IF B.calls[id].parent = "none" THEN B1
        ELSE SettledIn(B1, B.calls[id].parent, id)

\* processNestedBlocks of the call for id, from the batch at i to the next
\* await of a batch with fetches, or to the return
NestedIn(B, id) ==
    LET c == B.calls[id]
        ps == BatchPromises(c.blocks, c.i)
    IN  IF c.i >= Len(c.blocks)
        THEN ReturnIn(B, id, "done")
        ELSE IF ps = <<>>
             THEN NestedIn([B EXCEPT !.calls[id].i = @ + BATCH_SIZE], id)
             ELSE StartCallsIn([B EXCEPT !.calls[id].pc = "nested"], id, ps)

\* the fetch for a child has settled: the callback sets block.children, and
\* when the batch has settled the loop goes on to the next batch
SettledIn(B, parent, child) ==
    LET B1 == [B EXCEPT !.calls[parent].blocks =
                   Attach(@, child, FetchedChildren(B.calls[child]))]
        current == BatchPromises(B.calls[parent].blocks, B.calls[parent].i)
    IN  IF /\ B.calls[parent].pc = "nested"
           /\ child \in Range(current)
           /\ BatchSettled(B1, parent)
        THEN NestedIn([B1 EXCEPT !.calls[parent].i = @ + BATCH_SIZE], parent)
        ELSE B1

blocksFrame == <<exportVars, fanVars, treeVars, pureVars, imageVars>>

\* getNotionBlocks(notion, RootId) is called
BCall ==
    /\ calls[RootId].pc = "none"
    /\ CommitBlocks(StartCallIn(NowBlocks, RootId, "none"))
    /\ UNCHANGED blocksFrame

\* the list request of the call for id is answered: the blocks are added,
\* and the next result page is requested or the nested blocks are processed
BListOk(id) ==
    /\ calls[id].pc = "listing"
    /\ LET response == ListChildren(provider, Last(RequestsFor(reqLog, id)))
           cursor == NullishToUndefined(response.next_cursor)
           B1 == [NowBlocks EXCEPT
                     !.calls[id].blocks = PushAll(@, response.results),
                     !.calls[id].received = Append(@, response),
                     !.calls[id].cursor = cursor]
       IN  IF Truthy(cursor)
           THEN CommitBlocks(SendIn(B1, id))
           ELSE CommitBlocks(NestedIn(B1, id))
    /\ UNCHANGED blocksFrame

\* the list request of the call for id fails: the catch throws the error
BListFail(id) ==
    /\ calls[id].pc = "listing"
    /\ CommitBlocks(ReturnIn([NowBlocks EXCEPT !.calls[id].listFailed = TRUE],
                             id, "failed"))
    /\ UNCHANGED blocksFrame

InitBlocks ==
    /\ token = TRUE
    /\ \E leaf \in 0..NumBlocks : provider = Listing(leaf)
    /\ fs = EmptyFunction
    /\ dirs = {}
    /\ clock = 0
    /\ CallIdle
    /\ FanIdle
    /\ TreeIdle
    /\ PureIdle
    /\ ImageIdle
    /\ calls = [id \in Fetchable |-> NoCall]
    /\ reqLog = <<>>

NextBlocks ==
    \/ BCall
    \/ \E id \in Fetchable : BListOk(id)
    \/ \E id \in Fetchable : BListFail(id)

SpecBlocks == InitBlocks /\ [][NextBlocks]_vars

----------------------------------------------------------------------------
(* handleNotionError: what getNotionPage, getNotionBlocks, getDatabase and *)
(* queryDatabase throw when their request is rejected.  A rejection is a   *)
(* value that is an Error or not, with the properties it has; a property   *)
(* that is undefined is left out of the record.                            *)

ErrorCodes == {"unauthorized", "object_not_found", "rate_limited"}

ErrorStatuses == {401, 404, 429, 500}

Operations == {"getNotionPage", "getNotionBlocks", "getDatabase", "queryDatabase"}

\* the properties a rejection may have: code, status, both or neither
ErrorProps ==
    {EmptyFunction}
        \cup {[code |-> c] : c \in ErrorCodes}
        \cup {[status |-> st] : st \in ErrorStatuses}
        \cup {[code |-> c, status |-> st] : c \in ErrorCodes, st \in ErrorStatuses}

Rejections == [isError : BOOLEAN, props : ErrorProps]

\* new NotionAPIErrorImpl(message, code, status), with what is defined
NotionAPIErrorImpl(props) == props

\* NotionAPIErrorImpl.fromError: code and status are copied when present
fromError(error) ==
    IF error.isError
    THEN NotionAPIErrorImpl(
             [f \in DOMAIN error.props \cap {"code", "status"} |-> error.props[f]])
    ELSE NotionAPIErrorImpl(EmptyFunction)

\* handleNotionError: an Error with a code goes through fromError, any
\* other value becomes a NotionAPIError of its message alone
handleNotionError(error) ==
    IF error.isError
    THEN IF "code" \in DOMAIN error.props
         THEN fromError(error)
         ELSE NotionAPIErrorImpl(EmptyFunction)
    ELSE NotionAPIErrorImpl(EmptyFunction)

errorFrame == <<exportVars, fanVars, treeVars, blockVars, imageVars>>

\* the request of the operation is rejected: the catch throws what
\* handleNotionError returns
Throw ==
    /\ fnOut = <<>>
    /\ fnIn.fn \in Operations
    /\ fnOut' = <<handleNotionError(fnIn.error)>>
    /\ UNCHANGED <<fnIn, errorFrame>>

\* nothing else of the model is in use
OthersIdle ==
    /\ token = TRUE
    /\ provider = [p \in PageIds |-> InitialPage(p, TitleN)]
    /\ fs = EmptyFunction
    /\ dirs = {}
    /\ clock = 0
    /\ CallIdle
    /\ FanIdle
    /\ TreeIdle
    /\ BlocksIdle
    /\ ImageIdle

InitError ==
    /\ \E op \in Operations, error \in Rejections :
           fnIn = [fn |-> op, error |-> error]
    /\ fnOut = <<>>
    /\ OthersIdle

NextError == Throw

SpecError == InitError /\ [][NextError]_vars

----------------------------------------------------------------------------
(* safePathJoin applied to a base directory and a relative path, and the   *)
(* database directory made of a destination directory and a database id.   *)
(* A path is the sequence of its components between the "/" separators.    *)

MaxPathLen == 3

\* the components a relative path is made of here
Components ==
    {DotDot, Dot, <<>>, <<"a">>, <<".", ".", Backslash>>,
     <<".", ".", Backslash, "a">>, <<".", ".", Backslash, ".", ".">>}

RelativePaths ==
    UNION {[1..n -> Components] : n \in 0..MaxPathLen}

BaseDirs == {OutDir, OutDir \o <<DatabasesName>>, <<DotDot>> \o OutDir}

joinFrame == <<exportVars, fanVars, treeVars, blockVars, imageVars>>

\* safePathJoin(baseDir, relativePath) returns
Join ==
    /\ fnOut = <<>>
    /\ fnIn.fn = "safePathJoin"
    /\ fnOut' = <<safePathJoin(fnIn.baseDir, fnIn.relativePath)>>
    /\ UNCHANGED <<fnIn, joinFrame>>

\* exportNotionDatabase computes databaseDir
JoinDatabaseDir ==
    /\ fnOut = <<>>
    /\ fnIn.fn = "databaseDir"
    /\ fnOut' = <<databaseDirOf(fnIn.baseDir, fnIn.relativePath)>>
    /\ UNCHANGED <<fnIn, joinFrame>>

InitJoin ==
    /\ \E fn \in {"safePathJoin", "databaseDir"}, baseDir \in BaseDirs,
          relativePath \in RelativePaths :
           fnIn = [fn |-> fn, baseDir |-> baseDir, relativePath |-> relativePath]
    /\ fnOut = <<>>
    /\ OthersIdle

NextJoin ==
    \/ Join
    \/ JoinDatabaseDir

SpecJoin == InitJoin /\ [][NextJoin]_vars

----------------------------------------------------------------------------
(* getSafeFilename applied to a title, twice *)

MaxTitleLen == 4

TitleChars == {"a", " ", "_", ".", "/"}

ShortTitles(n) == UNION {[1..k -> TitleChars] : k \in 0..n}

Padding(n) == [i \in 1..n |-> "x"]

\* titles around the length limit: a run of letters between two short ends
LongTitles ==
    {s \o Padding(n) \o t :
        s \in ShortTitles(1), t \in ShortTitles(2),
        n \in (MAX_FILENAME_LENGTH - 2)..(MAX_FILENAME_LENGTH + 1)}

TitleInputs ==
    ShortTitles(MaxTitleLen) \cup LongTitles
        \cup {Untitled, Untitled \o <<" ">>, <<"/">> \o Untitled}

nameFrame == <<exportVars, fanVars, treeVars, blockVars, imageVars>>

\* getSafeFilename(title) returns, for the first and for the second time
Sanitize ==
    /\ fnIn.fn = "getSafeFilename"
    /\ Len(fnOut) < 2
    /\ fnOut' = Append(fnOut, getSafeFilename(fnIn.title))
    /\ UNCHANGED <<fnIn, nameFrame>>

InitName ==
    /\ \E title \in TitleInputs : fnIn = [fn |-> "getSafeFilename", title |-> title]
    /\ fnOut = <<>>
    /\ OthersIdle

NextName == Sanitize

SpecName == InitName /\ [][NextName]_vars

----------------------------------------------------------------------------
(* The Markdown text (markdown.ts).  A text is a sequence of pieces: a     *)
(* piece is one whitespace character, or a string that neither begins nor  *)
(* ends with whitespace (one character of a title, or a literal of the     *)
(* converter such as "<details>").  Concatenation of texts is \o.          *)

NL == "\n"
SP == " "

\* the pieces for a double quote, a backtick and a code fence, by name
DoubleQuote == "&quot;"
Backtick == "&#96;"
Fence == "&#96;&#96;&#96;"

Repeat(text, n) == [i \in 1..n |-> text[((i - 1) % Len(text)) + 1]]

\* Array.prototype.join
RECURSIVE JoinWith(_, _)
JoinWith(texts, sep) ==
    IF texts = <<>> THEN <<>>
    ELSE IF Len(texts) = 1 THEN texts[1]
    ELSE texts[1] \o sep \o JoinWith(Tail(texts), sep)

\* String.prototype.split("\n")
RECURSIVE SplitLines(_)
SplitLines(text) ==
    IF \A i \in DOMAIN text : text[i] # NL THEN <<text>>
    ELSE LET k == CHOOSE i \in DOMAIN text :
                      text[i] = NL /\ \A j \in 1..(i - 1) : text[j] # NL
         IN  <<SubSeq(text, 1, k - 1)>>
                 \o SplitLines(SubSeq(text, k + 1, Len(text)))

\* String.prototype.trim
trim(text) == StripTrailing(StripLeading(text, WhitespaceChars), WhitespaceChars)

\* convertRichText: the segments' plain texts, each wrapped by its
\* annotations in the order bold, italic, strikethrough, code, underline,
\* then by its link
Wrapped(content, on, open, close) ==
    IF on THEN <<open>> \o content \o <<close>> ELSE content

convertRichTextSegment(text) ==
    LET c0 == text.plain_text
        c1 == Wrapped(c0, "bold" \in text.annotations, "**", "**")
        c2 == Wrapped(c1, "italic" \in text.annotations, "*", "*")
        c3 == Wrapped(c2, "strikethrough" \in text.annotations, "~~", "~~")
        c4 == Wrapped(c3, "code" \in text.annotations, Backtick, Backtick)
        c5 == Wrapped(c4, "underline" \in text.annotations, "<u>", "</u>")
    IN  IF "href" \in DOMAIN text
        THEN <<"[">> \o c5 \o <<"](">> \o text.href \o <<")">>
        ELSE c5

convertRichText(richText) ==
    IF richText = <<>> THEN <<>>
    ELSE JoinWith([i \in DOMAIN richText |-> convertRichTextSegment(richText[i])],
                  <<>>)

\* createAnchorLink: every run of whitespace, parentheses, number signs,
\* quotes and colons becomes one hyphen
AnchorBreaks == WhitespaceChars \cup {"(", ")", "#", DoubleQuote, "'", ":"}

HyphenPerCharacter(text) ==
    [i \in DOMAIN text |-> IF text[i] \in AnchorBreaks THEN "-" ELSE text[i]]

createAnchorLink(text) ==
    LET marked == [i \in DOMAIN text |->
                      IF text[i] \notin AnchorBreaks THEN text[i]
                      ELSE IF i > 1 /\ text[i - 1] \in AnchorBreaks THEN Dropped
                      ELSE "-"]
    IN  SelectSeq(marked, LAMBDA c : c # Dropped)

HeadingTypes == {"heading_1", "heading_2", "heading_3"}

HeadingLevel(type) ==
    CASE type = "heading_1" -> 1
      [] type = "heading_2" -> 2
      [] type = "heading_3" -> 3

\* convertTableOfContents
convertTableOfContents(allBlocks) ==
    LET headings == SelectSeq(allBlocks, LAMBDA b : b.type \in HeadingTypes)
        tocLine(heading) ==
            LET text == convertRichText(heading.rich_text)
                level == HeadingLevel(heading.type)
                anchor == createAnchorLink(text)
                indent == Repeat(<<SP, SP>>, 2 * (level - 1))
            IN  indent \o <<"-", SP, "[">> \o text \o <<"](#">> \o anchor
                    \o <<")">>
    IN  IF headings = <<>>
        THEN <<"<!-- No headings found for table of contents -->">>
        ELSE JoinWith([i \in DOMAIN headings |-> tocLine(headings[i])], <<NL>>)

\* convertHeading1, convertHeading2, convertHeading3
convertHeading(block) ==
    Repeat(<<"#">>, HeadingLevel(block.type)) \o <<SP>>
        \o convertRichText(block.rich_text)

\* convertNumberedListItem
convertNumberedListItem(block, index) ==
    <<ToString(index), ".", SP>> \o convertRichText(block.rich_text)

\* convertTable: the rows that are table rows, each closed by a newline, and
\* the header separator after the first of them
convertTable(block) ==
    LET rows == IF "children" \in DOMAIN block THEN block.children ELSE <<>>
        tableRows == SelectSeq(rows, LAMBDA r : r.type = "table_row")
        line(cells) == <<"|", SP>> \o JoinWith(cells, <<SP, "|", SP>>)
                           \o <<SP, "|", NL>>
        rowLine(row) ==
            line([i \in DOMAIN row.cells |-> convertRichText(row.cells[i])])
        rule(row) == line([i \in DOMAIN row.cells |-> <<"---">>])
    IN  IF rows = <<>> THEN <<"<!-- Empty table -->">>
        ELSE JoinWith([i \in DOMAIN tableRows |->
                          rowLine(tableRows[i])
                              \o (IF i = 1 /\ block.has_column_header
                                  THEN rule(tableRows[i]) ELSE <<>>)],
                      <<>>)

\* id.replace(/-/g, "")
WithoutHyphens(id) == SelectSeq(id, LAMBDA c : c # "-")

\* convertImage without a destination directory: the remote URL
RemoteImage(block) ==
    <<"![">> \o convertRichText(block.caption) \o <<"](">> \o block.url
        \o <<")">>

\* isListItem
isListItem(type) ==
    type \in {"bulleted_list_item", "numbered_list_item", "to_do"}

\* the numbered list counter of convertBlocksToMarkdown for the next block
CounterNeverRestarts(type, prevBlockType, numberedListCounter) ==
    IF type # "numbered_list_item" THEN numberedListCounter
    ELSE numberedListCounter + 1

NextCounter(type, prevBlockType, numberedListCounter) ==
    IF type # "numbered_list_item" THEN 0
    ELSE IF prevBlockType # "numbered_list_item" THEN 1
    ELSE numberedListCounter + 1

\* the separator convertBlocksToMarkdown appends after a block
\* (block i of bs; there is a next block when i is not the last index)
SeparatorAlwaysBlankLine(bs, i) == <<NL, NL>>

Separator(bs, i) ==
    IF isListItem(bs[i].type) /\ i < Len(bs) /\ isListItem(bs[i + 1].type)
    THEN <<NL>>
    ELSE <<NL, NL>>

\* the text for a block whose type has no handler
UnsupportedRendersNothing(type) == <<>>

UnsupportedComment(type) ==
    <<"<!-- Unsupported block type:", SP, type, SP, "-->">>

RECURSIVE ConvertLoop(_, _, _, _, _, _)
RECURSIVE convertBlockToMarkdown(_, _, _, _)
RECURSIVE convertToggle(_, _)

\* The loop of convertBlocksToMarkdown from block i on: markdown is the text
\* built so far and parts the blockMarkdown of every block converted so far.
ConvertLoop(bs, destinationDir, i, prevBlockType, numberedListCounter, acc) ==
    IF i > Len(bs) THEN acc
    ELSE LET block == bs[i]
             counter == NextCounter(block.type, prevBlockType,
                                    numberedListCounter)
             blockMarkdown == convertBlockToMarkdown(block, destinationDir,
                                                     counter, bs)
             separator == Separator(bs, i)
         IN  ConvertLoop(bs, destinationDir, i + 1, block.type, counter,
                 [markdown |-> acc.markdown \o blockMarkdown \o separator,
                  parts |-> Append(acc.parts, blockMarkdown)])

\* convertBlocksToMarkdown with the per-block texts it went through
Conversion(bs, destinationDir) ==
    LET done == ConvertLoop(bs, destinationDir, 1, "", 0,
                            [markdown |-> <<>>, parts |-> <<>>])
    IN  [markdown |-> trim(done.markdown), parts |-> done.parts]

convertBlocksToMarkdown(bs, destinationDir) ==
    Conversion(bs, destinationDir).markdown

\* convertToggle
convertToggle(block, destinationDir) ==
    LET summary == convertRichText(block.rich_text)
        content == IF block.has_children /\ "children" \in DOMAIN block
                   THEN convertBlocksToMarkdown(block.children, destinationDir)
                   ELSE <<>>
    IN  <<"<details>", NL, SP, SP, "<summary>">> \o summary
            \o <<"</summary>", NL, SP, SP, NL, SP, SP>> \o content
            \o <<NL, "</details>">>

\* convertBlockToMarkdown: the handler of the block's type, and the comment
\* for a type without one.  A child database is taken without enriched
\* content here (convertBlockToLine has the enriched table), and an image
\* without a destination directory (SpecImage has the download).
convertBlockToMarkdown(block, destinationDir, numberedListIndex, allBlocks) ==
    CASE block.type = "paragraph" -> convertRichText(block.rich_text)
      [] block.type \in HeadingTypes -> convertHeading(block)
      [] block.type = "bulleted_list_item" ->
            <<"-", SP>> \o convertRichText(block.rich_text)
      [] block.type = "numbered_list_item" ->
            convertNumberedListItem(block, numberedListIndex)
      [] block.type = "to_do" ->
            <<"-", SP>> \o (IF block.checked THEN <<"[x]">> ELSE <<"[", SP, "]">>)
                \o <<SP>> \o convertRichText(block.rich_text)
      [] block.type = "toggle" -> convertToggle(block, destinationDir)
      [] block.type = "code" ->
            <<Fence>> \o block.language \o <<NL>>
                \o convertRichText(block.rich_text) \o <<NL, Fence>>
      [] block.type = "quote" ->
            LET lines == SplitLines(convertRichText(block.rich_text))
            IN  JoinWith([i \in DOMAIN lines |-> <<">", SP>> \o lines[i]],
                         <<NL>>)
      [] block.type = "divider" -> <<"---">>
      [] block.type = "callout" ->
            <<">", SP>> \o block.emoji \o <<SP, "**Note**", NL, ">", SP, NL,
                                           ">", SP>>
                \o convertRichText(block.rich_text)
      [] block.type = "image" -> RemoteImage(block)
      [] block.type = "table" -> convertTable(block)
      [] block.type = "link_preview" -> block.url
      [] block.type = "child_page" ->
            <<"[">> \o block.title \o <<"](https://www.notion.so/">>
                \o WithoutHyphens(block.id) \o <<")">>
      [] block.type = "child_database" ->
            <<"[Database:", SP>> \o block.id \o <<"](https://www.notion.so/">>
                \o WithoutHyphens(block.id) \o <<")">>
      [] block.type = "table_of_contents" -> convertTableOfContents(allBlocks)
      [] OTHER -> UnsupportedComment(block.type)

----------------------------------------------------------------------------
(* convertBlocksToMarkdown and createAnchorLink as functions of their      *)
(* arguments (SpecMarkdown).                                               *)

MaxBlocks == 4
MaxTocBlocks == 3
MaxTextLen == 3

PlainText(chars) ==
    IF chars = <<>> THEN <<>>
    ELSE <<[plain_text |-> chars, annotations |-> {}]>>

TextBlock(type, chars) ==
    [type |-> type, rich_text |-> PlainText(chars), has_children |-> FALSE]

ToDoBlock(chars, checked) ==
    [type |-> "to_do", rich_text |-> PlainText(chars), checked |-> checked,
     has_children |-> FALSE]

ToggleBlock(chars, children) ==
    [type |-> "toggle", rich_text |-> PlainText(chars),
     has_children |-> children # <<>>, children |-> children]

ToggleHeading(type, chars, children) ==
    [type |-> type, rich_text |-> PlainText(chars), is_toggleable |-> TRUE,
     has_children |-> TRUE, children |-> children]

TocBlock == [type |-> "table_of_contents", has_children |-> FALSE]

ColumnBlock(children) ==
    [type |-> "column", has_children |-> children # <<>>,
     children |-> children]

ColumnListBlock(columns) ==
    [type |-> "column_list", has_children |-> columns # <<>>,
     children |-> columns]

TableBlock(rows) ==
    [type |-> "table", has_column_header |-> TRUE, has_row_header |-> FALSE,
     has_children |-> rows # <<>>,
     children |-> [i \in DOMAIN rows |->
                      [type |-> "table_row",
                       cells |-> [j \in DOMAIN rows[i] |->
                                     PlainText(rows[i][j])]]]]

SeqsUpTo(S, n) == UNION {[1..k -> S] : k \in 0..n}

\* lists, paragraphs (one of them empty), a table and blocks without renderer
ListFamily ==
    {TextBlock("numbered_list_item", <<"a">>),
     TextBlock("bulleted_list_item", <<"b">>),
     ToDoBlock(<<"c">>, TRUE),
     TextBlock("paragraph", <<"d", SP, "e">>),
     TextBlock("paragraph", <<>>),
     TableBlock(<<<< <<"f">>, <<"g">> >>>>),
     ColumnListBlock(<<ColumnBlock(<<TextBlock("paragraph", <<"h">>)>>),
                       ColumnBlock(<<TextBlock("paragraph", <<"i">>)>>)>>),
     [type |-> "embed", has_children |-> FALSE]}

\* headings, tables of contents and toggles
TocFamily ==
    {TocBlock,
     TextBlock("heading_1", <<"A", SP, "b">>),
     TextBlock("heading_2", <<"c", ":", "d">>),
     TextBlock("heading_3", <<"e">>),
     TextBlock("paragraph", <<"f">>),
     ToggleBlock(<<"g">>, <<TocBlock, TextBlock("heading_2", <<"h">>)>>),
     ToggleBlock(<<"i">>, <<TocBlock>>),
     ToggleHeading("heading_1", <<"j">>, <<TextBlock("paragraph", <<"k">>)>>),
     ColumnListBlock(<<>>)}

BlockInputs == SeqsUpTo(ListFamily, MaxBlocks) \cup SeqsUpTo(TocFamily, MaxTocBlocks)

AnchorChars == {"a", "&", "-", SP, NL, "(", ")", "#", DoubleQuote, "'", ":"}

AnchorTexts ==
    SeqsUpTo(AnchorChars, MaxTextLen)
        \cup {<<"A", "P", "I", SP, "&", SP, "C", "o", "n", "f", "i", "g",
                "u", "r", "a", "t", "i", "o", "n">>,
              <<"A", "P", "I", SP, "R", "e", "f", "e", "r", "e", "n", "c",
                "e", SP, "(", "v", "2", ".", "0", ")">>,
              <<"S", "t", "e", "p", SP, "#", "1", ":", SP, DoubleQuote,
                "H", "e", "l", "l", "o", SP, "W", "o", "r", "l", "d",
                DoubleQuote>>}

markdownFrame == <<exportVars, fanVars, treeVars, blockVars, imageVars>>

\* convertBlocksToMarkdown(blocks, destinationDir) resolves
Convert ==
    /\ fnIn.fn = "convertBlocksToMarkdown"
    /\ fnOut = <<>>
    /\ fnOut' = <<Conversion(fnIn.blocks, fnIn.destinationDir)>>
    /\ UNCHANGED <<fnIn, markdownFrame>>

\* createAnchorLink(text) returns
Anchor ==
    /\ fnIn.fn = "createAnchorLink"
    /\ fnOut = <<>>
    /\ fnOut' = <<createAnchorLink(fnIn.text)>>
    /\ UNCHANGED <<fnIn, markdownFrame>>

InitMarkdown ==
    /\ \/ \E bs \in BlockInputs :
            fnIn = [fn |-> "convertBlocksToMarkdown", blocks |-> bs,
                    destinationDir |-> <<>>]
       \/ \E text \in AnchorTexts :
            fnIn = [fn |-> "createAnchorLink", text |-> text]
    /\ fnOut = <<>>
    /\ OthersIdle

NextMarkdown == Convert \/ Anchor

SpecMarkdown == InitMarkdown /\ [][NextMarkdown]_vars

----------------------------------------------------------------------------
(* Images (SpecImage): conversions of pages that hold image blocks, with a *)
(* destination directory or without one.  A URL is a text whose pieces are *)
(* runs of letters and digits, ".", "?", and other runs.                   *)

MaxImageBlocks == 2

Pages == {"p1", "p2"}

AlnumPieces == {"img", "png", "PNG", "gif", "a", "2"}

\* String.prototype.toLowerCase, on the pieces of the URLs of this model
toLowerCase(piece) == IF piece = "PNG" THEN "png" ELSE piece

\* the string a text spells
RECURSIVE Spelled(_)
Spelled(text) == IF text = <<>> THEN "" ELSE Head(text) \o Spelled(Tail(text))

\* url.split("?")[0]
BaseUrl(url) ==
    IF \E i \in DOMAIN url : url[i] = "?"
    THEN SubSeq(url, 1, (CHOOSE i \in DOMAIN url :
                            url[i] = "?" /\ \A j \in 1..(i - 1) : url[j] # "?") - 1)
    ELSE url

\* crypto.createHash("md5").update(text).digest("hex"): one digest per string
md5(text) == "md5(" \o Spelled(text) \o ")"

\* getImageExtension: the first "." that is followed by letters and digits
\* up to a "?" or the end of the URL gives the extension, which counts when
\* it is one of the valid ones
validExtensions == {"jpg", "jpeg", "png", "gif", "webp", "svg"}

getImageExtension(url) ==
    LET runEnd(i) ==
            CHOOSE j \in i..Len(url) :
                /\ \A k \in (i + 1)..j : url[k] \in AlnumPieces
                /\ j = Len(url) \/ url[j + 1] \notin AlnumPieces
        matches(i) ==
            /\ url[i] = "."
            /\ runEnd(i) > i
            /\ runEnd(i) = Len(url) \/ url[runEnd(i) + 1] = "?"
        ext(i) == Spelled([k \in 1..(runEnd(i) - i) |-> toLowerCase(url[i + k])])
    IN  IF \E i \in DOMAIN url : matches(i)
        THEN LET i == CHOOSE m \in DOMAIN url :
                          matches(m) /\ \A n \in 1..(m - 1) : ~matches(n)
             IN  IF ext(i) \in validExtensions THEN "." \o ext(i) ELSE ".jpg"
        ELSE ".jpg"

\* the name convertImage gives the local file of an image
ImageFilename(url) == "image_" \o md5(BaseUrl(url)) \o getImageExtension(url)

\* convertImage with a local file: the relative path of the file
LocalImage(block) ==
    <<"![">> \o convertRichText(block.caption) \o <<"](">>
        \o <<"images/" \o ImageFilename(block.url)>> \o <<")">>

ImageBlock(url) ==
    [type |-> "image", url |-> url, caption |-> <<>>, has_children |-> FALSE]

ImageUrls ==
    {<<"https://x/", "img", ".", "png", "?", "v=", "2">>,
     <<"https://x/", "img", "?", "f=", "a", ".", "PNG">>,
     <<"https://x/", "img", "?", "f=", "a", ".", "gif">>}

\* the image of the page exported next to the first one
SiblingUrl == <<"https://x/", "img", "?", "f=", "a", ".", "gif">>

ImageFamily ==
    {ImageBlock(url) : url \in ImageUrls}
        \cup {TextBlock("numbered_list_item", <<"a">>)}

\* a convertBlocksToMarkdown call that has not converted anything yet
NewConversion(bs, destinationDir) ==
    [blocks |-> bs, destinationDir |-> destinationDir, i |-> 1,
     prevBlockType |-> "", numberedListCounter |-> 0,
     acc |-> [markdown |-> <<>>, parts |-> <<>>], pc |-> "loop"]

\* the loop of convertBlocksToMarkdown has the text of block i
Appended(c, blockMarkdown) ==
    LET block == c.blocks[c.i]
    IN  [blocks |-> c.blocks, destinationDir |-> c.destinationDir,
         i |-> c.i + 1, prevBlockType |-> block.type,
         numberedListCounter |->
             NextCounter(block.type, c.prevBlockType, c.numberedListCounter),
         acc |-> [markdown |-> c.acc.markdown \o blockMarkdown
                                   \o Separator(c.blocks, c.i),
                  parts |-> Append(c.acc.parts, blockMarkdown)],
         pc |-> "loop"]

\* convertImage after downloadImage resolved: the local file when it
\* succeeded, the remote URL when it did not
DownloadFailureRejects(c, success) ==
    IF success THEN Appended(c, LocalImage(c.blocks[c.i]))
    ELSE [c EXCEPT !.pc = "rejected"]

ImageSettled(c, success) ==
    IF success THEN Appended(c, LocalImage(c.blocks[c.i]))
    ELSE Appended(c, RemoteImage(c.blocks[c.i]))

imageFrame == <<exportVars, fanVars, treeVars, blockVars, pureVars>>

\* the download the page waits for has ended
Ended(p, outcome) ==
    [d \in DOMAIN downloads |->
        IF downloads[d].page = p /\ downloads[d].outcome = "pending"
        THEN [downloads[d] EXCEPT !.outcome = outcome]
        ELSE downloads[d]]

Awaiting(p, pcs) == conv[p].pc \in pcs

\* the loop takes the next block, and it is not an image
ConvertOther(p) ==
    /\ Awaiting(p, {"loop"})
    /\ conv[p].i <= Len(conv[p].blocks)
    /\ LET c == conv[p]
           block == c.blocks[c.i]
       IN  /\ block.type # "image"
           /\ conv' = [conv EXCEPT ![p] =
                  Appended(c, convertBlockToMarkdown(block, c.destinationDir,
                      NextCounter(block.type, c.prevBlockType,
                                  c.numberedListCounter),
                      c.blocks))]
    /\ UNCHANGED <<imagesDir, downloads, imageFrame>>

\* convertImage without a destination directory returns the remote URL
ConvertImageRemote(p) ==
    /\ Awaiting(p, {"loop"})
    /\ conv[p].i <= Len(conv[p].blocks)
    /\ LET c == conv[p]
           block == c.blocks[c.i]
       IN  /\ block.type = "image"
           /\ c.destinationDir = <<>>
           /\ conv' = [conv EXCEPT ![p] = Appended(c, RemoteImage(block))]
    /\ UNCHANGED <<imagesDir, downloads, imageFrame>>

\* convertImage with a destination directory cannot make the images
\* directory: the error is caught and the remote URL returned
ConvertImageNoDirectory(p) ==
    /\ Awaiting(p, {"loop"})
    /\ conv[p].i <= Len(conv[p].blocks)
    /\ LET c == conv[p]
           block == c.blocks[c.i]
       IN  /\ block.type = "image"
           /\ c.destinationDir # <<>>
           /\ ~imagesDir.exists
           /\ conv' = [conv EXCEPT ![p] = Appended(c, RemoteImage(block))]
    /\ UNCHANGED <<imagesDir, downloads, imageFrame>>

\* convertImage with a destination directory, up to the await: the images
\* directory exists or is made; a file of the image's name is taken as it
\* is, and without one the download is started
ConvertImageLocal(p) ==
    /\ Awaiting(p, {"loop"})
    /\ conv[p].i <= Len(conv[p].blocks)
    /\ LET c == conv[p]
           block == c.blocks[c.i]
           filename == ImageFilename(block.url)
       IN  /\ block.type = "image"
           /\ c.destinationDir # <<>>
           /\ imagesDir' = [imagesDir EXCEPT !.exists = TRUE]
           /\ IF filename \in imagesDir.files
              THEN /\ conv' = [conv EXCEPT ![p] = Appended(c, LocalImage(block))]
                   /\ UNCHANGED downloads
              ELSE /\ conv' = [conv EXCEPT ![p].pc = "request"]
                   /\ downloads' = Append(downloads,
                          [page |-> p, block |-> c.i, url |-> block.url,
                           file |-> filename, outcome |-> "pending"])
    /\ UNCHANGED imageFrame

\* the response has status 200: the file is created and the body piped to it
Respond200(p) ==
    /\ Awaiting(p, {"request"})
    /\ conv' = [conv EXCEPT ![p].pc = "piping"]
    /\ imagesDir' = [imagesDir EXCEPT !.files =
                        @ \cup {ImageFilename(conv[p].blocks[conv[p].i].url)}]
    /\ UNCHANGED <<downloads, imageFrame>>

\* the response has another status: downloadImage resolves without success
RespondNon200(p) ==
    /\ Awaiting(p, {"request"})
    /\ conv' = [conv EXCEPT ![p] = ImageSettled(conv[p], FALSE)]
    /\ downloads' = Ended(p, "non200")
    /\ UNCHANGED <<imagesDir, imageFrame>>

\* the request emits an error: downloadImage resolves without success
RequestError(p) ==
    /\ Awaiting(p, {"request", "piping"})
    /\ conv' = [conv EXCEPT ![p] = ImageSettled(conv[p], FALSE)]
    /\ downloads' = Ended(p, "error")
    /\ UNCHANGED <<imagesDir, imageFrame>>

\* the file stream finishes: downloadImage resolves with success
Finish(p) ==
    /\ Awaiting(p, {"piping"})
    /\ conv' = [conv EXCEPT ![p] = ImageSettled(conv[p], TRUE)]
    /\ downloads' = Ended(p, "finished")
    /\ UNCHANGED <<imagesDir, imageFrame>>

\* the file stream emits an error: the file is unlinked and downloadImage
\* resolves without success
WriteError(p) ==
    /\ Awaiting(p, {"piping"})
    /\ conv' = [conv EXCEPT ![p] = ImageSettled(conv[p], FALSE)]
    /\ imagesDir' = [imagesDir EXCEPT !.files =
                        @ \ {ImageFilename(conv[p].blocks[conv[p].i].url)}]
    /\ downloads' = Ended(p, "writeError")
    /\ UNCHANGED imageFrame

\* the loop is through: convertBlocksToMarkdown resolves with the trimmed text
ConversionReturns(p) ==
    /\ Awaiting(p, {"loop"})
    /\ conv[p].i > Len(conv[p].blocks)
    /\ conv' = [conv EXCEPT ![p].pc = "done"]
    /\ UNCHANGED <<imagesDir, downloads, imageFrame>>

\* p1 is a page of up to MaxImageBlocks blocks; p2, exported next to it into
\* the same directory, holds one image or nothing
InitImage ==
    /\ \E bs \in SeqsUpTo(ImageFamily, MaxImageBlocks),
          other \in {<<>>, <<ImageBlock(SiblingUrl)>>},
          destinationDir \in {<<>>, <<"out">>} :
            conv = [p \in Pages |->
                       NewConversion(IF p = "p1" THEN bs ELSE other,
                                     destinationDir)]
    /\ \E files \in {{}, {ImageFilename(SiblingUrl)}} :
            imagesDir = [exists |-> files # {}, files |-> files]
    /\ downloads = <<>>
    /\ token = TRUE
    /\ provider = [p \in PageIds |-> InitialPage(p, TitleN)]
    /\ fs = EmptyFunction
    /\ dirs = {}
    /\ clock = 0
    /\ CallIdle
    /\ FanIdle
    /\ TreeIdle
    /\ BlocksIdle
    /\ PureIdle

NextImage ==
    \E p \in Pages :
        \/ ConvertOther(p)
        \/ ConvertImageRemote(p)
        \/ ConvertImageNoDirectory(p)
        \/ ConvertImageLocal(p)
        \/ Respond200(p)
        \/ RespondNon200(p)
        \/ RequestError(p)
        \/ Finish(p)
        \/ WriteError(p)
        \/ ConversionReturns(p)

SpecImage == InitImage /\ [][NextImage]_vars

----------------------------------------------------------------------------
(* queryDatabase as exportNotionDatabase calls it (SpecQuery): the items of *)
(* a database are queried result page by result page.                      *)

MaxDbItems == 3
QueryPageSize == 2

ItemStatuses == {"Done", "Todo"}

DbItem(k, st) ==
    [object |-> "page", id |-> "i" \o ToString(k), Status |-> st]

\* the queries an export is given: a filter, a sort, both
DoneFilter == [property |-> "Status", equals |-> "Done"]
CreatedDescending == <<[property |-> "Created", direction |-> "descending"]>>

DatabaseQueries ==
    {[filter |-> DoneFilter], [sorts |-> CreatedDescending],
     [filter |-> DoneFilter, sorts |-> CreatedDescending]}

\* the items of the database in the order of their creation
DatabaseContents ==
    UNION {{[k \in 1..n |-> DbItem(k, statuses[k])] :
               statuses \in [1..n -> ItemStatuses]} : n \in 0..MaxDbItems}

Reversed(s) == [k \in DOMAIN s |-> s[Len(s) + 1 - k]]

\* what the provider selects for a request: the items that pass the filter
\* of the request, in the order its sorts ask for
Selected(items, params) ==
    LET passing == IF "filter" \in DOMAIN params
                   THEN SelectSeq(items, LAMBDA it :
                            it[params.filter.property] = params.filter.equals)
                   ELSE items
    IN  IF "sorts" \in DOMAIN params THEN Reversed(passing) ELSE passing

\* notion.databases.query answers a request
QueryDatabaseResponse(prov, params) ==
    LET pages == ResultPages(Selected(prov[params.database_id], params),
                             QueryPageSize)
        k == IF "start_cursor" \in DOMAIN params
             THEN PageOfCursor(params.start_cursor, pages) ELSE 1
    IN  [results |-> pages[k],
         next_cursor |-> IF k < Len(pages) THEN CursorOf(k + 1) ELSE Null]

\* params of queryDatabase: the database id, and start_cursor for a cursor.
\* queryDatabase has two parameters, so the query that exportNotionDatabase
\* passes as a third argument is not part of them
QueryParams(databaseId, cursor, query) ==
    IF Truthy(cursor)
    THEN [database_id |-> databaseId, start_cursor |-> cursor]
    ELSE [database_id |-> databaseId]

NoQueryCall == [pc |-> "none", query |-> <<>>, cursor |-> Undefined,
                pages |-> <<>>]

queryFrame == <<exportVars, fanVars, treeVars, pureVars, imageVars>>

\* exportNotionDatabase(DatabaseId, dir, recursive, query) has the database
\* and calls queryDatabase(notion, DatabaseId, query), which sends its
\* first request
QCall(query) ==
    /\ calls[DatabaseId].pc = "none"
    /\ calls' = [calls EXCEPT ![DatabaseId] =
                    [NoQueryCall EXCEPT !.pc = "querying", !.query = query]]
    /\ reqLog' = Append(reqLog, QueryParams(DatabaseId, Undefined, query))
    /\ UNCHANGED queryFrame

\* the request is answered: the pages are added, and the next result page
\* is requested or the pages are returned
QOk ==
    /\ calls[DatabaseId].pc = "querying"
    /\ LET c == calls[DatabaseId]
           response == QueryDatabaseResponse(provider, Last(reqLog))
           newPages == SelectSeq(response.results, LAMBDA r : r.object = "page")
           cursor == NullishToUndefined(response.next_cursor)
       IN  /\ calls' = [calls EXCEPT ![DatabaseId] =
                  [c EXCEPT !.pages = PushAll(@, newPages),
                            !.cursor = cursor,
                            !.pc = IF Truthy(cursor) THEN "querying" ELSE "done"]]
           /\ reqLog' = IF Truthy(cursor)
                        THEN Append(reqLog,
                                 QueryParams(DatabaseId, cursor, c.query))
                        ELSE reqLog
    /\ UNCHANGED queryFrame

\* the request is rejected: the catch throws the error
QFail ==
    /\ calls[DatabaseId].pc = "querying"
    /\ calls' = [calls EXCEPT ![DatabaseId].pc = "failed"]
    /\ UNCHANGED <<reqLog, queryFrame>>

InitQuery ==
    /\ token = TRUE
    /\ \E items \in DatabaseContents : provider = [d \in {DatabaseId} |-> items]
    /\ fs = EmptyFunction
    /\ dirs = {}
    /\ clock = 0
    /\ CallIdle
    /\ FanIdle
    /\ TreeIdle
    /\ PureIdle
    /\ ImageIdle
    /\ calls = [d \in {DatabaseId} |-> NoQueryCall]
    /\ reqLog = <<>>

NextQuery ==
    \/ \E query \in DatabaseQueries \cup {<<>>} : QCall(query)
    \/ QOk
    \/ QFail

SpecQuery == InitQuery /\ [][NextQuery]_vars

----------------------------------------------------------------------------
(* Properties of the export call (Spec) *)

MetadataKeys == {"id", "created_time", "last_edited_time", "url", "archived",
                 "in_trash", "public_url"}

\* the call has the page object and is past its update check
PastCheck == args.kind \in {"page", "item"} /\ loc # NoLoc

\* the metadata embedded in the output file as the call found it
PriorMetadata == extractMetadataFromMarkdown(atStart.fs, loc.path)

\* an earlier call of the same export wrote the output file of this call,
\* for this page, when the page had the last_edited_time it has now
WrittenBeforeUnchanged ==
    /\ PastCheck
    /\ loc.path \in DOMAIN atStart.written
    /\ atStart.written[loc.path].kind = args.kind
    /\ atStart.written[loc.path].page.id = loc.page.id
    /\ atStart.written[loc.path].page.last_edited_time = loc.page.last_edited_time

\* the file at the call's path is, bytes and modification time, what it was
\* when the call started
FileUntouched ==
    /\ loc.path \in DOMAIN fs
    /\ loc.path \in DOMAIN atStart.fs
    /\ fs[loc.path] = atStart.fs[loc.path]

(* C1: when an export has written file F for page P and is called again     *)
(* while P's last_edited_time is what it was, the second call resolves with *)
(* success and the path of F and does not write F: the bytes and the        *)
(* modification time of F are what they were.                               *)
C1_ReexportIdempotent ==
    WrittenBeforeUnchanged =>
        /\ pc = "done"
        /\ result.success
        /\ result.path = loc.path
        /\ FileUntouched
        /\ fs = atStart.fs

\* a second call for a page whose first call wrote the file
C1_Witness ==
    /\ WrittenBeforeUnchanged
    /\ args.kind = "page"
    /\ pc = "done"
    /\ ncalls = 2
    /\ decision = "skip"
    /\ fs[loc.path].mtime = atStart.fs[loc.path].mtime

\* the last lines of the file are the conversion of the blocks of this call
EndsWithConversionOf(lines, bs) ==
    LET body == convertBlocksToLines(bs)
    IN  /\ Len(lines) >= Len(body)
        /\ SubSeq(lines, Len(lines) - Len(body) + 1, Len(lines)) = body

HasLine(lines, line) == \E k \in DOMAIN lines : lines[k] = line

\* the output file exists with metadata whose last_edited_time is not the
\* fetched page's
PriorDiffers ==
    /\ PastCheck
    /\ args.kind = "page"
    /\ PriorMetadata[1]
    /\ Get(PriorMetadata[2], "last_edited_time") # JStr(loc.page.last_edited_time)

(* C2: when the last_edited_time of the fetched page differs from the one   *)
(* embedded in the existing output file, exportNotionPage asks for the      *)
(* blocks again, and when it resolves the file has been rewritten: it       *)
(* carries the new last_edited_time and ends with the conversion of the     *)
(* blocks fetched in this call.  (A call whose block fetch fails rejects.)  *)
C2_UpdatePropagates ==
    PriorDiffers =>
        /\ decision = "process"
        /\ req.blocks >= 1
        /\ pc # "failed" \/ result = Rejected("NotionAPIError")
        /\ pc = "done" =>
              /\ result.success
              /\ result.path = loc.path
              /\ loc.path \in DOMAIN fs
              /\ fs[loc.path].mtime > atStart.fs[loc.path].mtime
              /\ fs[loc.path].lines[1] = Sentinel
              /\ HasLine(fs[loc.path].lines,
                         LastEditedLine(loc.page.last_edited_time))
              /\ \A k \in DOMAIN fs[loc.path].lines :
                     LET line == fs[loc.path].lines[k]
                     IN  (Len(line) = 3 /\ line[1] = "kv" /\ line[2] = "last_edited_time")
                             => line = LastEditedLine(loc.page.last_edited_time)
              /\ EndsWithConversionOf(fs[loc.path].lines, blocks)
              /\ blocks # <<>>

C2_Witness ==
    /\ PriorDiffers
    /\ pc = "done"
    /\ loc.path \in DOMAIN atStart.written
    /\ atStart.written[loc.path].page.id = loc.page.id
    /\ atStart.written[loc.path].blocks # blocks

(* C3: the update check depends on last_edited_time alone: the call skips   *)
(* exactly when prior metadata was read from the file and its               *)
(* last_edited_time is the fetched page's; no other field of the metadata   *)
(* has a say.                                                               *)
C3_DecisionByLastEditedTimeAlone ==
    PastCheck =>
        (decision = "skip" <=>
            /\ PriorMetadata[1]
            /\ Get(PriorMetadata[2], "last_edited_time")
                   = JStr(loc.page.last_edited_time))

\* a skip although the public_url in the file is not the page's
C3_Witness ==
    /\ PastCheck
    /\ decision = "skip"
    /\ HasKey(PriorMetadata[2], "public_url")
    /\ Get(PriorMetadata[2], "public_url") # loc.page.public_url

\* files of PriorFiles whose JSON block cannot be read: no closing brace, no
\* closing marker, a value that is no JSON
MalformedFiles ==
    { <<Sentinel, OpenBrace, LastEditedLine(Timestamps[1]), EndMarker>>,
      <<Sentinel, OpenBrace, LastEditedLine(Timestamps[1]), CloseBrace>>,
      <<Sentinel, OpenBrace, <<"kv", "last_edited_time", <<"lit", "undefined">>>>,
        CloseBrace, EndMarker>> }

PriorMissingOrMalformed ==
    /\ PastCheck
    /\ \/ loc.path \notin DOMAIN atStart.fs
       \/ atStart.fs[loc.path].lines = <<>>
       \/ /\ atStart.fs[loc.path].lines # <<>>
          /\ atStart.fs[loc.path].lines[1] # Sentinel
       \/ atStart.fs[loc.path].lines \in MalformedFiles

(* C4: when the output file does not exist, does not start with the         *)
(* sentinel line, or holds a JSON block that cannot be parsed, the call     *)
(* takes the update-needed path: it asks for the blocks, it fails only if   *)
(* that request fails, and when it resolves it has written the file.        *)
C4_MissingMetadataForcesExport ==
    PriorMissingOrMalformed =>
        /\ decision = "process"
        /\ req.blocks = 1
        /\ pc = "failed" => result = Rejected("NotionAPIError")
        /\ pc = "done" =>
              /\ result.success
              /\ loc.path \in DOMAIN fs
              /\ fs[loc.path].mtime = clock
              /\ loc.path \in DOMAIN atStart.fs =>
                     fs[loc.path].mtime > atStart.fs[loc.path].mtime
              /\ fs[loc.path].lines[1] = Sentinel
              /\ written[loc.path].page = loc.page

C4_Witness ==
    /\ PriorMissingOrMalformed
    /\ loc.path \in DOMAIN atStart.fs
    /\ atStart.fs[loc.path].lines \in MalformedFiles
    /\ pc = "done"

(* C5: for every file an export has written, the metadata read back from    *)
(* the file has the seven fields of the page that was written, each with    *)
(* the page's value, and the first line of the file is the sentinel.        *)
C5_MetadataRoundTrip ==
    \A path \in DOMAIN written :
        LET page == written[path].page
            back == extractMetadataFromMarkdown(fs, path)
        IN  /\ fs[path].lines[1] = Sentinel
            /\ back[1]
            /\ \A key \in MetadataKeys : HasKey(back[2], key)
            /\ Get(back[2], "id") = JStr(page.id)
            /\ Get(back[2], "created_time") = JStr(page.created_time)
            /\ Get(back[2], "last_edited_time") = JStr(page.last_edited_time)
            /\ Get(back[2], "url") = JStr(page.url)
            /\ Get(back[2], "archived") = JBool(page.archived)
            /\ Get(back[2], "in_trash") = JBool(page.in_trash)
            /\ Get(back[2], "public_url") = page.public_url

\* files written by both exports, one of them of a published page
C5_Witness ==
    /\ \E path \in DOMAIN written : written[path].kind = "item"
    /\ \E path \in DOMAIN written :
           /\ written[path].kind = "page"
           /\ written[path].page.public_url # JNull

(* C6: when the update check of a page or of a database item finds no       *)
(* update needed, the call issues no list-block-children request and no     *)
(* database request, makes no directory, writes no file, and resolves with  *)
(* success and the path of the existing file.                               *)
C6_SkipTouchesNothing ==
    (PastCheck /\ ~hasPageBeenUpdated(CurrentMetadata(loc.page), PriorMetadata)) =>
        /\ pc = "done"
        /\ req.blocks = 0
        /\ req.db = 0
        /\ fs = atStart.fs
        /\ dirs = atStart.dirs
        /\ clock \in {f.mtime : f \in {fs[q] : q \in DOMAIN fs}} \cup {0}
        /\ result.success
        /\ result.path = loc.path
        /\ result.path \in DOMAIN fs

C6_Witness ==
    /\ PastCheck
    /\ args.kind = "item"
    /\ decision = "skip"
    /\ pc = "done"

----------------------------------------------------------------------------
(* Properties of the fan-out loop (SpecFan) *)

Running == {e \in DOMAIN status : status[e] = "running"}

RecordedFor(e) == {k \in DOMAIN results : results[k].pageId = e}

(* C7: at no time are more than ConcurrencyLimit exports that the fan-out  *)
(* started still unsettled.                                                 *)
C7_AtMostThreeInFlight == Cardinality(Running) <= ConcurrencyLimit

(* C8: the fan-out returns only when every export it started has settled.   *)
C8_ReturnsAfterAllSettled == lpc = "returned" => Running = {}

(* C9: when the fan-out returns, its results hold exactly one result for    *)
(* each entry of the list it was given.                                     *)
C9_OneResultPerEntry ==
    lpc = "returned" => \A e \in 1..total : Cardinality(RecordedFor(e)) = 1

(* C10: a failed export becomes, for the loop, a result with success=false  *)
(* and an empty path for its entry; the loop never fails because of it, and *)
(* it ends only with every entry of its queue started.                      *)
C10_SiblingIsolation ==
    /\ lpc # "threw"
    /\ \A e \in DOMAIN status :
           status[e] = "rejected" =>
               LET tracked == Tracked(fanKind, e, status[e])
               IN  /\ tracked.state = "fulfilled"
                   /\ tracked.value.success = FALSE
                   /\ tracked.value.pageId = e
                   /\ tracked.value.path = ""
    /\ \A k \in DOMAIN results :
           /\ results[k].success <=> status[results[k].pageId] = "fulfilled"
           /\ ~results[k].success => results[k].path = ""
    /\ lpc \in {"returned", "threw"} =>
           /\ queue = <<>>
           /\ started = [i \in 1..total |-> i]

\* the first entry failed and is recorded as failed, and every entry after
\* it was started, those that waited in the queue included
C10_Witness ==
    /\ lpc = "returned"
    /\ total > ConcurrencyLimit
    /\ status[1] = "rejected"
    /\ \E k \in DOMAIN results : results[k].pageId = 1 /\ ~results[k].success
    /\ Len(started) = total

----------------------------------------------------------------------------
(* Properties of the recursive run (SpecTree) *)

WritesOf(n) == {k \in DOMAIN trace.writes : trace.writes[k].node = n}

PageExports == {n \in TreeNodes : tasks[n].kind = "page"}

(* C11: when the request for the page or the request for its blocks is     *)
(* answered with an error, exportNotionPage rejects with that error, has   *)
(* written no file, and has started no subpage export.                     *)
C11_PageFetchFailureIsFatal ==
    \A n \in PageExports \cap trace.fetchFailed :
        /\ tasks[n].pc = "failed"
        /\ tasks[n].result = Rejected("NotionAPIError")
        /\ WritesOf(n) = {}
        /\ (tasks[n].loc # NoLoc /\ tasks[n].loc.path \in DOMAIN fs) =>
               \E k \in DOMAIN trace.writes :
                   /\ trace.writes[k].path = tasks[n].loc.path
                   /\ trace.writes[k].node # n
        /\ loops[n] = NoLoop
        /\ \A c \in Range(getSubpages(provider[RootId].content)) :
               n = RootId => tasks[c] = NoTask

\* the blocks of the root page of a recursive run could not be listed
C11_Witness ==
    /\ RootId \in trace.fetchFailed
    /\ tasks[RootId].kind = "page"
    /\ tasks[RootId].recursive
    /\ tasks[RootId].loc # NoLoc
    /\ getSubpages(provider[RootId].content) # <<>>

----------------------------------------------------------------------------
(* C12: with the token unset or empty, exportNotionPage,                   *)
(* exportNotionDatabase and exportNotionResource each fail with the token  *)
(* error before any request goes to the provider and before any directory  *)
(* or file is created or written.                                          *)
C12_CredentialPreflight ==
    ~token =>
        /\ trace.requests = 0
        /\ trace.writes = <<>>
        /\ \A p \in DOMAIN fs : fs[p].mtime = 0
        /\ dirs \subseteq UNION {Ancestors(p) : p \in DOMAIN fs}
        /\ run.entry = "resource" =>
               /\ run.pc = "failed"
               /\ run.result = Rejected("NotionTokenError")
               /\ trace.started = <<>>
        /\ run.entry \in {"page", "database"} =>
               /\ tasks[run.id].pc = "failed"
               /\ tasks[run.id].result = Rejected("NotionTokenError")
               /\ trace.started = <<run.id>>

C12_Witness ==
    /\ ~token
    /\ run.entry = "page"
    /\ tasks[RootId].pc = "failed"
    /\ tasks[RootId].recursive

----------------------------------------------------------------------------
\* the export exportNotionResource has started, by its kind
Dispatched(kind) ==
    /\ trace.started # <<>>
    /\ Head(trace.started) = run.id
    /\ tasks[run.id].kind = kind

Answered == run.entry = "resource" /\ run.retrieve # "none"

(* C13, as stated: exportNotionResource runs the database export exactly   *)
(* when databases.retrieve succeeds, the page export exactly when it fails *)
(* with object_not_found or validation_error, and rethrows any other error *)
(* with neither export started.                                            *)
C13_DispatchByRetrieveAlone ==
    Answered =>
        /\ Dispatched("database") <=> run.retrieve = "ok"
        /\ Dispatched("page") <=>
               run.retrieve \in {"object_not_found", "validation_error"}
        /\ run.retrieve \notin {"ok", "object_not_found", "validation_error"} =>
               /\ run.pc = "failed"
               /\ run.result = Rejected(run.retrieve)
               /\ trace.started = <<>>

(* C13, amended: the database export runs exactly when databases.retrieve  *)
(* succeeds and the query string, if one is given, parses as JSON; when    *)
(* the retrieve succeeds and the query string does not parse, the call     *)
(* fails with the query error and neither export is started.  The page     *)
(* export runs exactly on object_not_found or validation_error, and any    *)
(* other error is rethrown with neither export started.                    *)
C13_ResourceDispatch ==
    Answered =>
        /\ Dispatched("database") <=>
               (run.retrieve = "ok" /\ run.query # "invalid")
        /\ (run.retrieve = "ok" /\ run.query = "invalid") =>
               /\ run.pc = "failed"
               /\ run.result = Rejected("InvalidQueryJSON")
               /\ trace.started = <<>>
        /\ Dispatched("page") <=>
               run.retrieve \in {"object_not_found", "validation_error"}
        /\ run.retrieve \notin {"ok", "object_not_found", "validation_error"} =>
               /\ run.pc = "failed"
               /\ run.result = Rejected(run.retrieve)
               /\ trace.started = <<>>

C13_Witness ==
    /\ Answered
    /\ run.retrieve = "ok"
    /\ run.query = "invalid"
    /\ run.pc = "failed"

----------------------------------------------------------------------------
(* Properties of getNotionBlocks (SpecBlocks) *)

Ids(bs) == [k \in DOMAIN bs |-> bs[k].id]

RECURSIVE Concatenated(_)
Concatenated(pages) ==
    IF pages = <<>> THEN <<>> ELSE Head(pages) \o Concatenated(Tail(pages))

ResultsOf(responses) == [k \in DOMAIN responses |-> responses[k].results]

PastPagination(c) == c.pc \in {"nested", "done"}

(* C14: the blocks of getNotionBlocks are the result pages received, put   *)
(* together in the order of the responses, and they are all the blocks the *)
(* provider lists, in its order; the first request has no cursor, each     *)
(* later request has the next_cursor of the response before it, and the    *)
(* response without a cursor is the last one.                              *)
C14_PaginationPreservesOrder ==
    \A id \in Fetchable :
        LET c == calls[id]
            sent == RequestsFor(reqLog, id)
        IN  /\ c.pc \in {"listing", "nested", "done"} =>
                   /\ Ids(c.blocks) = Ids(Concatenated(ResultsOf(c.received)))
                   /\ Len(sent) = Len(c.received) + (IF c.pc = "listing" THEN 1 ELSE 0)
                   /\ "start_cursor" \notin DOMAIN sent[1]
                   /\ \A k \in 2..Len(sent) :
                          /\ "start_cursor" \in DOMAIN sent[k]
                          /\ sent[k].start_cursor = c.received[k - 1].next_cursor
                   /\ \A k \in 1..(Len(c.received) - 1) :
                          c.received[k].next_cursor # Null
            /\ PastPagination(c) =>
                   /\ Last(c.received).next_cursor = Null
                   /\ Ids(c.blocks) = Ids(Concatenated(provider[id]))

C14_Witness ==
    /\ calls[RootId].pc = "done"
    /\ Len(calls[RootId].received) = 2
    /\ Len(calls[RootId].blocks) = NumBlocks
    /\ calls[TopBlock(1)].pc = "done"
    /\ Len(calls[TopBlock(1)].received) = 2

----------------------------------------------------------------------------
\* the fetches processNestedBlocks of the call for id has started, and the
\* batch a block of that call is in
ChildFetches(id) == {x \in Fetchable : calls[x].parent = id}

BatchOf(id, x) ==
    LET k == CHOOSE j \in DOMAIN calls[id].blocks : calls[id].blocks[j].id = x
    IN  (k - 1) \div BATCH_SIZE

(* C15: of the fetches one processNestedBlocks call has started, those of  *)
(* an earlier batch have all settled when one of a later batch has been    *)
(* started, and at most 5 are in flight at any time.                       *)
C15_BatchSynchronous ==
    \A id \in Fetchable :
        /\ \A x \in ChildFetches(id), y \in ChildFetches(id) :
               BatchOf(id, x) < BatchOf(id, y) => CallSettled(calls[x])
        /\ Cardinality({x \in ChildFetches(id) : InFlight(calls[x])}) <= 5

\* five fetches of the first batch are in flight, and later the second
\* batch has been started
C15_Witness ==
    /\ Cardinality({x \in ChildFetches(RootId) : BatchOf(RootId, x) = 0}) = 5
    /\ \E y \in ChildFetches(RootId) :
           /\ BatchOf(RootId, y) = 1
           /\ InFlight(calls[y])

(* C16: in a call that has returned, a block whose fetch failed has an     *)
(* empty children sequence and every other block with children has the     *)
(* blocks its own fetch returned; a call fails only when one of its own    *)
(* list requests failed.                                                   *)
C16_ChildFailureAbsorbed ==
    \A id \in Fetchable :
        /\ calls[id].pc = "failed" <=> calls[id].listFailed
        /\ calls[id].pc = "done" =>
               \A k \in DOMAIN calls[id].blocks :
                   LET b == calls[id].blocks[k]
                   IN  IF ~b.has_children
                       THEN "children" \notin DOMAIN b
                       ELSE /\ "children" \in DOMAIN b
                            /\ b.children = IF calls[b.id].pc = "failed"
                                            THEN <<>> ELSE calls[b.id].blocks
                            /\ calls[b.id].pc = "done" => b.children # <<>>

\* the page is fetched although a fetch of its first batch has failed, and
\* a fetch of the same batch and one of the second batch have succeeded
C16_Witness ==
    /\ calls[RootId].pc = "done"
    /\ \E x \in ChildFetches(RootId), y \in ChildFetches(RootId),
          z \in ChildFetches(RootId) :
           /\ BatchOf(RootId, x) = 0 /\ calls[x].pc = "failed"
           /\ BatchOf(RootId, y) = 0 /\ calls[y].pc = "done"
           /\ BatchOf(RootId, z) = 1 /\ calls[z].pc = "done"

----------------------------------------------------------------------------
(* Properties of handleNotionError (SpecError) *)

Thrown == fnOut[1]

(* C17: the error thrown for a provider error carries the code and the     *)
(* status of the provider error, and none that the provider error does not *)
(* have; this includes a provider error with a status and no code.         *)
C17_DiagnosticsPreserved ==
    (fnIn.fn \in Operations /\ fnOut # <<>> /\ fnIn.error.isError) =>
        \A f \in {"code", "status"} :
            IF f \in DOMAIN fnIn.error.props
            THEN f \in DOMAIN Thrown /\ Thrown[f] = fnIn.error.props[f]
            ELSE f \notin DOMAIN Thrown

----------------------------------------------------------------------------
\* the page and item exports of the run that have resolved their file path
Resolved ==
    {n \in TreeNodes : tasks[n].kind \in {"page", "item"} /\ tasks[n].loc # NoLoc}

(* C18: in a recursive run no file path is written by two different page   *)
(* or item exports, and no two page or item exports resolve to the same    *)
(* file path; so neither two sibling subpages nor two items of a database  *)
(* share an output file.                                                   *)
C18_DisjointOutputPaths ==
    /\ \A j \in DOMAIN trace.writes, k \in DOMAIN trace.writes :
           trace.writes[j].path = trace.writes[k].path =>
               trace.writes[j].node = trace.writes[k].node
    /\ \A m \in Resolved, n \in Resolved :
           m # n => tasks[m].loc.path # tasks[n].loc.path

----------------------------------------------------------------------------
(* Properties of safePathJoin (SpecJoin) *)

IsPrefix(p, q) == Len(p) <= Len(q) /\ SubSeq(q, 1, Len(p)) = p

Joined == fnOut[1]

(* C19: the path safePathJoin returns lies inside the base directory, for  *)
(* every base directory and every relative path: it begins with the        *)
(* components of the base directory and goes up nowhere after them; the    *)
(* same holds for the database directory of any database id.               *)
C19_PathContainment ==
    (fnIn.fn \in {"safePathJoin", "databaseDir"} /\ fnOut # <<>>) =>
        LET base == PathNormalize(fnIn.baseDir)
        IN  /\ IsPrefix(base, Joined)
            /\ \A k \in (Len(base) + 1)..Len(Joined) : Joined[k] \notin {DotDot, Dot, <<>>}
            /\ fnIn.fn = "databaseDir" =>
                   IsPrefix(base \o <<DatabasesName>>, Joined)

\* a relative path that climbs two levels and then names a file
C19_Witness ==
    /\ fnIn.fn = "safePathJoin"
    /\ fnOut # <<>>
    /\ fnIn.baseDir = OutDir
    /\ fnIn.relativePath = <<DotDot, DotDot, <<"a">> >>
    /\ Joined = OutDir \o << <<"a">> >>

----------------------------------------------------------------------------
(* Properties of getSafeFilename (SpecName) *)

\* nothing of the title is kept: it has only prohibited characters and dots
SanitizesToNothing(title) ==
    \A i \in DOMAIN title : title[i] \in ProhibitedChars \cup {"."}

(* C20: every call of getSafeFilename on a title gives the same result;    *)
(* the result is not empty, has at most 100 characters, none of the        *)
(* prohibited characters, no whitespace and no two underscores in a row;   *)
(* it is "Untitled" for an empty title, for "Untitled" and for a title of  *)
(* which nothing is kept.                                                  *)
C20_SafeFilename ==
    fnIn.fn = "getSafeFilename" =>
        \A k \in DOMAIN fnOut :
            LET name == fnOut[k]
            IN  /\ name = fnOut[1]
                /\ name # <<>>
                /\ Len(name) <= 100
                /\ \A i \in DOMAIN name :
                       name[i] \notin ProhibitedChars \cup WhitespaceChars
                /\ \A i \in 1..(Len(name) - 1) :
                       ~(name[i] = "_" /\ name[i + 1] = "_")
                /\ (\/ fnIn.title = <<>>
                    \/ fnIn.title = Untitled
                    \/ IsBlank(fnIn.title)
                    \/ SanitizesToNothing(fnIn.title)) => name = Untitled

\* a title over the limit with a prohibited character, sanitized twice
C20_Witness ==
    /\ fnIn.fn = "getSafeFilename"
    /\ Len(fnOut) = 2
    /\ Len(fnIn.title) > 100
    /\ fnIn.title[1] = "/"
    /\ Len(fnOut[1]) = 100

----------------------------------------------------------------------------
(* C21: the result of getSafeFilename neither begins nor ends with a dot   *)
(* or a whitespace character, for every title, also one longer than 100    *)
(* characters that is cut.                                                 *)
C21_NoDotAtEitherEnd ==
    fnIn.fn = "getSafeFilename" =>
        \A k \in DOMAIN fnOut :
            /\ Head(fnOut[k]) \notin {"."} \cup WhitespaceChars
            /\ Last(fnOut[k]) \notin {"."} \cup WhitespaceChars

----------------------------------------------------------------------------
(* Properties of the Markdown conversion (SpecMarkdown) *)

Converted == fnIn.fn = "convertBlocksToMarkdown" /\ fnOut # <<>>

Parts == fnOut[1].parts

IsNumbered(i) == fnIn.blocks[i].type = "numbered_list_item"

(* C22: a numbered_list_item is rendered with number 1 when it is the      *)
(* first block or the previous block is not a numbered_list_item, and with *)
(* the previous item's number plus 1 otherwise, so that any other block in *)
(* between restarts the numbering.                                         *)
C22_NumberedListCounter ==
    Converted =>
        \A i \in DOMAIN fnIn.blocks :
            IsNumbered(i) =>
                /\ Parts[i] = <<Parts[i][1], ".", SP>>
                                  \o convertRichText(fnIn.blocks[i].rich_text)
                /\ IF i = 1 \/ ~IsNumbered(i - 1)
                   THEN Parts[i][1] = ToString(1)
                   ELSE \E n \in 1..Len(fnIn.blocks) :
                            /\ Parts[i - 1][1] = ToString(n)
                            /\ Parts[i][1] = ToString(n + 1)

C22_Witness ==
    /\ Converted
    /\ [i \in DOMAIN fnIn.blocks |-> fnIn.blocks[i].type]
           = <<"numbered_list_item", "numbered_list_item", "paragraph",
               "numbered_list_item">>
    /\ <<Parts[1][1], Parts[2][1], Parts[4][1]>> = <<"1", "2", "1">>

ListTypes == {"bulleted_list_item", "numbered_list_item", "to_do"}

\* the texts of the blocks, from block i on, with one newline between two
\* list-type blocks and one blank line between any other two
RECURSIVE JoinedByPolicy(_, _, _)
JoinedByPolicy(bs, parts, i) ==
    IF i > Len(bs) THEN <<>>
    ELSE IF i = Len(bs) THEN parts[i]
    ELSE parts[i]
             \o (IF bs[i].type \in ListTypes /\ bs[i + 1].type \in ListTypes
                 THEN <<NL>> ELSE <<NL, NL>>)
             \o JoinedByPolicy(bs, parts, i + 1)

Solid(text) ==
    text # <<>> /\ Head(text) \notin WhitespaceChars
                /\ Last(text) \notin WhitespaceChars

PageToc(page) ==
    LET hs == SelectSeq(page, LAMBDA b :
                  b.type \in {"heading_1", "heading_2", "heading_3"})
        bullet(h) ==
            LET text == convertRichText(h.rich_text)
            IN  Repeat(<<SP>>, 2 * (HeadingLevel(h.type) - 1))
                    \o <<"-", SP, "[">> \o text \o <<"](#">>
                    \o createAnchorLink(text) \o <<")">>
    IN  IF hs = <<>> THEN <<"<!-- No headings found for table of contents -->">>
        ELSE JoinWith([i \in DOMAIN hs |-> bullet(hs[i])], <<NL>>)

Contains(text, part) ==
    \E k \in 0..(Len(text) - Len(part)) :
        SubSeq(text, k + 1, k + Len(part)) = part

HasToc(bs) == \E j \in DOMAIN bs : bs[j].type = "table_of_contents"

(* C24: a table_of_contents block, wherever it occurs (at the top level of *)
(* the page or among the children of a toggle), renders one bullet per     *)
(* heading_1/2/3 block of the entire top-level block sequence of the page, *)
(* in document order, and the comment when the page has no heading.        *)
C24_TocCoversWholePage ==
    Converted =>
        \A i \in DOMAIN fnIn.blocks :
            LET block == fnIn.blocks[i]
            IN  /\ block.type = "table_of_contents"
                       => Parts[i] = PageToc(fnIn.blocks)
                /\ (block.type = "toggle" /\ HasToc(block.children))
                       => Contains(Parts[i], PageToc(fnIn.blocks))

\* the same for the tables of contents at the top level alone
C24_TopLevelToc ==
    Converted =>
        \A i \in DOMAIN fnIn.blocks :
            fnIn.blocks[i].type = "table_of_contents"
                => Parts[i] = PageToc(fnIn.blocks)

\* the text with every maximal run of characters of the set replaced by one
\* hyphen and every other character as it is
RECURSIVE RunsReplaced(_, _)
RunsReplaced(text, set) ==
    IF text = <<>> THEN <<>>
    ELSE IF Head(text) \in set
    THEN <<"-">> \o RunsReplaced(StripLeading(text, set), set)
    ELSE <<Head(text)>> \o RunsReplaced(Tail(text), set)

ClaimedBreaks == WhitespaceChars \cup {"(", ")", "#", DoubleQuote, "'"}

AnchorReturned == fnIn.fn = "createAnchorLink" /\ fnOut # <<>>

(* C25, as stated: the anchor of a heading is its text with every maximal  *)
(* run of whitespace, parentheses, '#' and quote characters replaced by a  *)
(* single hyphen and every other character left unchanged.                 *)
C25_AnchorKeepsColons ==
    AnchorReturned => fnOut[1] = RunsReplaced(fnIn.text, ClaimedBreaks)

(* C25, amended: the anchor of a heading is its text with every maximal    *)
(* run of whitespace, parentheses, '#', quote characters and colons        *)
(* replaced by a single hyphen and every other character left unchanged.   *)
C25_AnchorDerivation ==
    AnchorReturned
        => fnOut[1] = RunsReplaced(fnIn.text, ClaimedBreaks \cup {":"})

C25_Witness ==
    /\ AnchorReturned
    /\ fnIn.text = <<"S", "t", "e", "p", SP, "#", "1", ":", SP, DoubleQuote,
                     "H", "e", "l", "l", "o", SP, "W", "o", "r", "l", "d",
                     DoubleQuote>>
    /\ fnOut[1] = <<"S", "t", "e", "p", "-", "1", "-", "H", "e", "l", "l", "o",
                    "-", "W", "o", "r", "l", "d", "-">>

IsToggleable(block) == "is_toggleable" \in DOMAIN block /\ block.is_toggleable

HashLine(block) ==
    Repeat(<<"#">>, HeadingLevel(block.type)) \o <<SP>>
        \o convertRichText(block.rich_text)

HTag(block, open) ==
    (IF open THEN "<h" ELSE "</h") \o ToString(HeadingLevel(block.type)) \o ">"

(* C26: a heading_1/2/3 block flagged is_toggleable renders as a <details> *)
(* element whose summary is the heading text wrapped in the matching <hN>  *)
(* tag and whose body is the conversion of its children, and a heading     *)
(* that is not toggleable renders as a plain '#', '##' or '###' line.      *)
C26_ToggleableHeadingAsDetails ==
    Converted =>
        \A i \in DOMAIN fnIn.blocks :
            LET block == fnIn.blocks[i]
            IN  block.type \in {"heading_1", "heading_2", "heading_3"} =>
                    IF IsToggleable(block)
                    THEN /\ Head(Parts[i]) = "<details>"
                         /\ Contains(Parts[i],
                                <<"<summary>", HTag(block, TRUE)>>
                                    \o convertRichText(block.rich_text)
                                    \o <<HTag(block, FALSE), "</summary>">>)
                         /\ Contains(Parts[i],
                                convertBlocksToMarkdown(block.children, <<>>))
                         /\ Last(Parts[i]) = "</details>"
                    ELSE Parts[i] = HashLine(block)

\* the headings that are not toggleable render as a plain line
C26_PlainHeadingAsHashLine ==
    Converted =>
        \A i \in DOMAIN fnIn.blocks :
            (fnIn.blocks[i].type \in {"heading_1", "heading_2", "heading_3"}
                /\ ~IsToggleable(fnIn.blocks[i]))
                    => Parts[i] = HashLine(fnIn.blocks[i])

\* the opening tags of the wrapper and of a column (&quot; for the quote)
FlexWrapper == "<div style=&quot;display: flex; gap: 20px;&quot;>"
FlexColumn == "<div style=&quot;flex: 1;&quot;>"

(* C27: a column_list block renders a flex-styled <div> wrapper that holds, *)
(* for each child column in order, a <div style="flex: 1;"> with the       *)
(* conversion of that column's blocks; a column_list without children      *)
(* still renders the wrapper.                                              *)
C27_ColumnListAsFlexDiv ==
    Converted =>
        \A i \in DOMAIN fnIn.blocks :
            LET block == fnIn.blocks[i]
            IN  block.type = "column_list" =>
                    /\ Head(Parts[i]) = FlexWrapper
                    /\ Last(Parts[i]) = "</div>"
                    /\ \A c \in DOMAIN block.children :
                           Contains(Parts[i],
                               <<FlexColumn>>
                                   \o <<NL>>
                                   \o convertBlocksToMarkdown(
                                          block.children[c].children, <<>>))
                    /\ Len(SelectSeq(Parts[i], LAMBDA p : p = FlexColumn))
                           = Len(block.children)

\* the types of the blocks of SpecMarkdown that have no renderer
UnknownTypes == {"embed"}

(* C28: for every block whose type has no renderer convertBlocksToMarkdown *)
(* emits the comment '<!-- Unsupported block type: <type> -->' for that    *)
(* block and goes on to convert the remaining blocks of the sequence: the  *)
(* conversion completes with a text for every block, and the comment and   *)
(* the texts of the blocks after it are in the output.                     *)
C28_UnsupportedBlockComment ==
    Converted =>
        /\ Len(Parts) = Len(fnIn.blocks)
        /\ \A i \in DOMAIN fnIn.blocks :
               fnIn.blocks[i].type \in UnknownTypes =>
                   /\ Parts[i] = <<"<!-- Unsupported block type:", SP,
                                   fnIn.blocks[i].type, SP, "-->">>
                   /\ Contains(fnOut[1].markdown, Parts[i])
                   /\ \A j \in (i + 1)..Len(fnIn.blocks) :
                          /\ Contains(fnOut[1].markdown, trim(Parts[j]))
                          /\ (j = i + 1
                                 /\ fnIn.blocks[j].type = "numbered_list_item")
                                 => Parts[j] = <<"1", ".", SP, "a">>

C28_Witness ==
    /\ Converted
    /\ [i \in DOMAIN fnIn.blocks |-> fnIn.blocks[i].type]
           = <<"paragraph", "embed", "numbered_list_item">>
    /\ fnOut[1].markdown
           = <<"d", SP, "e", NL, NL, "<!-- Unsupported block type:", SP,
               "embed", SP, "-->", NL, NL, "1", ".", SP, "a">>

----------------------------------------------------------------------------
(* Properties of the images (SpecImage) *)

(* C29: any two image URLs that differ only in their query string resolve  *)
(* to the same local filename image_<md5 of base URL><ext>: two downloads  *)
(* started for URLs with the same base are downloads to the same file.     *)
C29_FilenameKeyedByBaseUrl ==
    \A m, n \in DOMAIN downloads :
        BaseUrl(downloads[m].url) = BaseUrl(downloads[n].url)
            => downloads[m].file = downloads[n].file

\* the same URL resolves to the same file in every download
C29_SameUrlSameFile ==
    \A m, n \in DOMAIN downloads :
        downloads[m].url = downloads[n].url
            => downloads[m].file = downloads[n].file

DownloadFailures == {"non200", "error", "writeError"}

ImageAt(d) == conv[d.page].blocks[d.block]

(* C30: when an image download fails (non-200 response, request error or   *)
(* file write error) the image block renders as Markdown pointing at the   *)
(* remote URL, the conversion goes on with the remaining blocks and        *)
(* resolves with a text for every block; without a destination directory  *)
(* no download is started and every image points at its remote URL.        *)
C30_ImageFailureFallsBack ==
    /\ \A p \in DOMAIN conv :
           LET c == conv[p]
           IN  /\ c.pc \in {"loop", "request", "piping", "done"}
               /\ c.pc = "done" => Len(c.acc.parts) = Len(c.blocks)
               /\ c.destinationDir = <<>> =>
                      /\ downloads = <<>>
                      /\ \A k \in DOMAIN c.acc.parts :
                             c.blocks[k].type = "image"
                                 => c.acc.parts[k] = RemoteImage(c.blocks[k])
    /\ \A m \in DOMAIN downloads :
           LET d == downloads[m]
               c == conv[d.page]
           IN  /\ d.outcome \in DownloadFailures =>
                      /\ d.block \in DOMAIN c.acc.parts
                      /\ c.acc.parts[d.block]
                             = <<"![", "](">> \o d.url \o <<")">>
               /\ d.outcome = "finished" =>
                      /\ d.block \in DOMAIN c.acc.parts
                      /\ c.acc.parts[d.block]
                             = <<"![", "](", "images/" \o d.file, ")">>

\* all three failures in one run, and both pages converted to the end
C30_Witness ==
    /\ {downloads[m].outcome : m \in DOMAIN downloads} = DownloadFailures
    /\ \A p \in DOMAIN conv : conv[p].pc = "done"
    /\ \E m \in DOMAIN downloads :
           LET d == downloads[m]
               c == conv[d.page]
           IN  /\ d.outcome = "non200"
               /\ d.block < Len(c.blocks)
               /\ c.acc.parts[d.block] = RemoteImage(ImageAt(d))
               /\ c.acc.markdown # <<>>

----------------------------------------------------------------------------
(* Properties of the database query (SpecQuery) *)

\* the items of the database that a query asks for, in its order
Matching(items, query) == Selected(items, query)

(* C31: when a filter/sort query is supplied to a database export, every   *)
(* query request of that export, on every result page, carries that filter *)
(* and sort payload unchanged, and the pages returned are the items that   *)
(* match the query.                                                        *)
C31_QueryPassThrough ==
    LET c == calls[DatabaseId]
    IN  c.pc # "none" =>
            /\ \A r \in DOMAIN reqLog :
                   \A f \in DOMAIN c.query :
                       f \in DOMAIN reqLog[r] /\ reqLog[r][f] = c.query[f]
            /\ c.pc = "done" =>
                   c.pages = Matching(provider[DatabaseId], c.query)

\* every request is for the database, and the pages returned are the pages
\* of the results in order
C31_AllItemsReturned ==
    LET c == calls[DatabaseId]
    IN  /\ \A r \in DOMAIN reqLog : reqLog[r].database_id = DatabaseId
        /\ c.pc = "done" => c.pages = provider[DatabaseId]

----------------------------------------------------------------------------
(* Properties of the recursive run, continued (SpecTree) *)

\* <name> of the run: the sanitized custom file name when one is given to
\* the root page, the sanitized title of the root page otherwise
RootName ==
    IF tasks[RootId].custom # NoCustom
    THEN getSafeFilename(tasks[RootId].custom)
    ELSE getSafeFilename(getPageTitle(provider[RootId]))

\* the file name of a page that has no custom name
TitleFile(n) == getSafeFilename(getPageTitle(provider[n])) \o MdExt

RootIsPage == tasks[RootId].kind = "page" /\ tasks[RootId].recursive

----------------------------------------------------------------------------
\* the path lies in the directory
Under(path, dir) ==
    Len(path) > Len(dir) /\ SubSeq(path, 1, Len(dir)) = dir

\* the exports that have reached processSubpagesAndDatabases, and the child
\* databases of each whose export was started
Parents == {n \in TreePages : tasks[n].recursive /\ WritesOf(n) # {}}

StartedDatabases(n) ==
    {d \in Range(getChildDatabases(tasks[n].blocks)) : tasks[d].pc # "none"}

\* the subdirectory named after the resolved file name of the export of n,
\* which receives its subpages
Subdirectory(n) == tasks[n].dir \o <<tasks[n].loc.filename>>

(* C33, as stated: in a recursive export every child database of a page is *)
(* exported into the subdirectory named after that page's resolved file    *)
(* name, the subdirectory that receives the page's subpages.               *)
C33_DatabasesUnderSubdirectory ==
    \A n \in Parents : \A d \in StartedDatabases(n) :
        \A k \in WritesOf(d) : Under(trace.writes[k].path, Subdirectory(n))

(* C33, amended: in a recursive export every child database of a page is   *)
(* exported into that page's own destination directory, as                 *)
(* <destination>/databases/<database id>/, beside the page's file and not  *)
(* in the subdirectory that receives the page's subpages.                  *)
C33_DatabasesBesideParent ==
    \A n \in Parents : \A d \in StartedDatabases(n) :
        /\ tasks[d].dir = tasks[n].dir
        /\ \A k \in WritesOf(d) :
               /\ Under(trace.writes[k].path,
                        tasks[n].dir \o <<DatabasesName, IdChars[d]>>)
               /\ ~Under(trace.writes[k].path, Subdirectory(n))
        /\ \A i \in Range(QueriedIdsOf(provider, d)) : \A k \in WritesOf(i) :
               Under(trace.writes[k].path,
                     tasks[n].dir \o <<DatabasesName, IdChars[d]>>)

\* a root page with subpages whose child database has written _meta.md and
\* an item, and a subpage its file
C33_Witness ==
    /\ RootIsPage
    /\ \E d \in StartedDatabases(RootId) :
           /\ WritesOf(d) # {}
           /\ \E i \in Range(QueriedIdsOf(provider, d)) : WritesOf(i) # {}
    /\ \E c \in Range(SubpageIds) : WritesOf(c) # {}

----------------------------------------------------------------------------
\* the subpages and the child databases that the export of n starts
Children(n) ==
    Range(getSubpages(tasks[n].blocks)) \cup Range(getChildDatabases(tasks[n].blocks))

\* the steps of the export of page n, from one state of the run to the next
StepOrder(n) ==
    LET t == tasks[n]
        u == tasks'[n]
        entersBlocks == u.pc = "getBlocks" /\ t.pc # "getBlocks"
        entersConvert == u.pc = "convert" /\ t.pc # "convert"
        writes == Len(trace'.writes) > Len(trace.writes) /\
                  Last(trace'.writes).node = n
    IN  u.kind = "page" =>
            \* the page is retrieved, then the update check decides
            /\ entersBlocks =>
                   /\ t.pc = "getPage"
                   /\ u.loc.page = provider[n]
                   /\ NeedsUpdate(fs, u.loc)
                   /\ u.blocks = <<>>
            /\ (t.pc = "getPage" /\ u.loc # NoLoc /\ ~NeedsUpdate(fs, u.loc)) =>
                   u.pc = "done" /\ u.blocks = <<>>
            \* the blocks are enriched, then converted
            /\ entersConvert =>
                   \/ t.pc = "enrich"
                   \/ /\ t.pc = "getBlocks"
                      /\ \A i \in DOMAIN u.blocks : ~HoldsDatabase(u.blocks[i])
            /\ u.pc = "enrich" /\ t.pc # "enrich" => t.pc = "getBlocks"
            \* the conversion is written
            /\ writes => t.pc = "convert" /\ Last(trace'.writes).path = t.loc.path
            \* the file is written before a subpage or child database starts
            /\ \A j \in DOMAIN trace'.started :
                   (u.blocks # <<>> /\ trace'.started[j] \in
                        Range(getSubpages(u.blocks)) \cup Range(getChildDatabases(u.blocks))) =>
                       \E k \in DOMAIN trace'.writes :
                           /\ trace'.writes[k].node = n
                           /\ trace'.writes[k].started < j
            \* a failed request ends the export
            /\ (t.pc \in {"getPage", "getBlocks"} /\ u.pc = "failed") =>
                   /\ fs' = fs
                   /\ trace'.writes = trace.writes
                   /\ trace'.started = trace.started
            /\ t.pc = "failed" => u = t /\ WritesOf(n) = {}

(* C34: in every run of exportNotionPage the page is retrieved before the  *)
(* update check; the blocks are listed only after the check has decided    *)
(* that an update is needed; the enrichment of the child databases is      *)
(* complete before the conversion starts; the file of the page is written  *)
(* before any subpage or child database export of the page is started; and *)
(* a failure of the page or block request ends the run without conversion  *)
(* or write.                                                               *)
C34_StepOrder == [][\A n \in TreePages : StepOrder(n)]_vars

\* a recursive run whose root page was enriched, written and has returned,
\* with one subpage failed at a request and the other written
C34_Witness ==
    /\ RootIsPage
    /\ tasks[RootId].pc = "done"
    /\ \E i \in DOMAIN tasks[RootId].blocks :
           tasks[RootId].blocks[i].type = "child_database" /\
           tasks[RootId].blocks[i].enriched
    /\ WritesOf(RootId) # {}
    /\ \E c \in Range(SubpageIds) : c \in trace.fetchFailed
    /\ \E c \in Range(SubpageIds) : WritesOf(c) # {}

----------------------------------------------------------------------------
\* the position at which the export of node n was started
StartedAt(n) == CHOOSE j \in DOMAIN trace.started : trace.started[j] = n

\* the child databases of the export of n, in block order
ChildDatabasesOf(n) == getChildDatabases(tasks[n].blocks)

(* C35: within one processSubpagesAndDatabases call at most one child      *)
(* database export is in flight at any time, the next one is started only  *)
(* after the previous one has settled, they are started in block order,    *)
(* and the failure of one does not prevent the later ones from being       *)
(* exported: the call returns with every child database exported or        *)
(* failed, and never fails because of one.                                 *)
C35_ChildDatabasesOneAtATime ==
    \A n \in Parents :
        LET dbs == ChildDatabasesOf(n)
            begun == {k \in DOMAIN dbs : tasks[dbs[k]].pc # "none"}
        IN  /\ Cardinality({k \in DOMAIN dbs : IsRunning(tasks[dbs[k]])}) <= 1
            /\ \A k \in begun :
                   \A j \in 1..(k - 1) :
                       /\ j \in begun
                       /\ HasSettled(tasks[dbs[j]])
                       /\ StartedAt(dbs[j]) < StartedAt(dbs[k])
            /\ tasks[n].pc = "childDb" =>
                   /\ tasks[n].childDb \in begun
                   /\ \A k \in begun : k <= tasks[n].childDb
            /\ tasks[n].pc # "failed"
            /\ tasks[n].pc = "done" =>
                   \A k \in DOMAIN dbs : HasSettled(tasks[dbs[k]])

\* the page has returned; its first child database failed and its second
\* one was exported
C35_Witness ==
    /\ RootIsPage
    /\ tasks[RootId].pc = "done"
    /\ Len(ChildDatabasesOf(RootId)) = 2
    /\ tasks[ChildDatabasesOf(RootId)[1]].pc = "failed"
    /\ tasks[ChildDatabasesOf(RootId)[2]].pc = "done"
    /\ WritesOf(ChildDatabasesOf(RootId)[2]) # {}

----------------------------------------------------------------------------
\* the tables among the lines of a file, those inside a toggle included
TablesAt(lines) == {lines[i] : i \in {j \in DOMAIN lines : lines[j][1] = "table"}}

TablesIn(lines) ==
    TablesAt(lines)
    \cup UNION {TablesAt(lines[i][2]) :
                   i \in {j \in DOMAIN lines : lines[j][1] = "toggle"}}

\* the tables at the top level of a file
TopTablesIn(lines) == TablesAt(lines)

\* every export the run has started has settled
RunOver == trace.started # <<>> /\ \A n \in TreeNodes : ~IsRunning(tasks[n])

\* the link of row r of table tb in the file of the export of n, resolved
\* against the directory of that file, is where the run has the file of the
\* item of that row
LinkResolves(n, tb, r) ==
    LET target == tasks[n].dir \o <<DatabasesName, IdChars[tb[2]], tb[3][r]>>
        item == QueriedIdsOf(provider, tb[2])[r]
    IN  /\ tasks[item].pc = "done"
        /\ tasks[item].kind = "item"
        /\ tasks[item].result.path = target
        /\ target \in DOMAIN fs

\* the page exports of a recursive run from the root page in which no
\* request failed, when the run is over
WrittenPages ==
    IF RunOver /\ RootIsPage /\ trace.fetchFailed = {}
    THEN {n \in PageExports : WritesOf(n) # {}}
    ELSE {}

(* C36: in a recursive export, for every child_database block rendered as  *)
(* a table, at any nesting depth of the block tree, the link in the first  *)
(* column of each row, resolved relative to the directory of the page's    *)
(* Markdown file, is the path at which the same run writes the file of     *)
(* that database item.                                                     *)
C36_InlineLinksResolve ==
    \A n \in WrittenPages :
        \A tb \in TablesIn(fs[tasks[n].loc.path].lines) :
            \A r \in DOMAIN tb[3] : LinkResolves(n, tb, r)

\* the same for the tables of the child_database blocks at the top level of
\* the page, which are the ones getChildDatabases finds
C36_TopLevelLinksResolve ==
    \A n \in WrittenPages :
        \A tb \in TopTablesIn(fs[tasks[n].loc.path].lines) :
            \A r \in DOMAIN tb[3] : LinkResolves(n, tb, r)

\* a run that is over, with a table at the top level of the root's file
C36_TopLevelWitness ==
    /\ RootId \in WrittenPages
    /\ TopTablesIn(fs[tasks[RootId].loc.path].lines) # {}

----------------------------------------------------------------------------
(* Properties of the images, continued (SpecImage) *)

(* C37: a download is started for a local image file name only if no file  *)
(* of that name exists, so that in one run, sibling exports that convert   *)
(* concurrently into the same directory and reference the same image       *)
(* included, at most one download is ever started for a given local image  *)
(* path.                                                                   *)
C37_OneDownloadPerPath ==
    \A j \in DOMAIN downloads, k \in DOMAIN downloads :
        downloads[j].file = downloads[k].file => j = k

\* two downloads into one file are never in progress at the same time
C37_NoConcurrentDownloadsOfOnePath ==
    \A j \in DOMAIN downloads, k \in DOMAIN downloads :
        (/\ downloads[j].file = downloads[k].file
         /\ downloads[j].outcome = "pending"
         /\ downloads[k].outcome = "pending") => j = k

----------------------------------------------------------------------------
\* the subpages and child databases that the page n has at the provider
ChildrenAtProvider(n) ==
    Range(getSubpages(provider[n].content))
    \cup Range(getChildDatabases(provider[n].content))

\* the export of n took the skip path
Skipped(n) == tasks[n].pc = "done" /\ WritesOf(n) = {}

(* C38: when exportNotionPage or exportDatabaseItem takes the skip path it  *)
(* returns without starting any subpage or child database export, also     *)
(* when recursive is set; so in one run the exports started below a page   *)
(* are all below pages that were rewritten in that run.                    *)
C38_UnchangedParentStopsRecursion ==
    \A n \in TreePages :
        /\ Skipped(n) =>
               /\ tasks[n].blocks = <<>>
               /\ loops[n] = NoLoop
               /\ \A c \in ChildrenAtProvider(n) :
                      c # run.id => tasks[c] = NoTask
        /\ \A c \in ChildrenAtProvider(n) :
               (c # run.id /\ tasks[c].pc # "none") => WritesOf(n) # {}

\* a recursive export of the root page, which has subpages and a child
\* database, has taken the skip path
C38_Witness ==
    /\ RootIsPage
    /\ Skipped(RootId)
    /\ Len(getSubpages(provider[RootId].content)) = 2
    /\ getChildDatabases(provider[RootId].content) # <<>>

\* a recursive export of a database item that has a child database has
\* taken the skip path
C38_ItemWitness ==
    /\ tasks[ItemIds[1]].kind = "item"
    /\ tasks[ItemIds[1]].recursive
    /\ Skipped(ItemIds[1])
    /\ ChildrenAtProvider(ItemIds[1]) # {}

----------------------------------------------------------------------------
(* Properties of getNotionBlocks, continued (SpecBlocks) *)

\* the blocks the provider lists for a block, in its order
ListedFor(id) == Concatenated(provider[id])

\* every block of the tree with the flag has children, those listed for it
\* or none when their fetch failed, and the same holds below it; a block
\* without the flag has none
RECURSIVE Complete(_)
Complete(bs) ==
    \A k \in DOMAIN bs :
        IF bs[k].has_children
        THEN /\ "children" \in DOMAIN bs[k]
             /\ Ids(bs[k].children) =
                    IF calls[bs[k].id].pc = "failed" THEN <<>>
                    ELSE Ids(ListedFor(bs[k].id))
             /\ Complete(bs[k].children)
        ELSE "children" \notin DOMAIN bs[k]

\* how many levels of blocks the tree has
RECURSIVE Depth(_)
Depth(bs) ==
    IF bs = <<>> THEN 0
    ELSE LET below == {IF "children" \in DOMAIN bs[k] THEN Depth(bs[k].children)
                       ELSE 0 : k \in DOMAIN bs}
         IN  1 + CHOOSE d \in below : \A e \in below : e <= d

(* C39: when getNotionBlocks resolves, every block of the returned tree,   *)
(* at every depth, whose has_children flag is true has a children sequence *)
(* assigned, its fetched children in the order of the API or the empty     *)
(* sequence if fetching them failed, and no block whose flag is false has  *)
(* been given children.                                                    *)
C39_BlockTreeComplete ==
    calls[RootId].pc = "done" =>
        /\ Ids(calls[RootId].blocks) = Ids(ListedFor(RootId))
        /\ Complete(calls[RootId].blocks)

\* a tree of three levels is returned, with a block without the flag at the
\* top level and a block whose children could not be fetched
C39_Witness ==
    /\ calls[RootId].pc = "done"
    /\ Depth(calls[RootId].blocks) = 3
    /\ \E k \in DOMAIN calls[RootId].blocks : ~calls[RootId].blocks[k].has_children
    /\ \E k \in DOMAIN calls[RootId].blocks :
           /\ calls[RootId].blocks[k].has_children
           /\ calls[calls[RootId].blocks[k].id].pc = "failed"

----------------------------------------------------------------------------
(* Properties of the fan-out loop, continued (SpecFanFair) *)

\* the loop has returned, every entry of the list was started once and in
\* the order of the list, and there are as many results as entries
FanOutComplete ==
    /\ lpc = "returned"
    /\ started = [i \in 1..total |-> i]
    /\ Len(results) = total

(* C40: for every finite list of subpages or database items, if every      *)
(* started export eventually settles, successfully or not, the admission   *)
(* loop terminates, having started each queued entry exactly once in list  *)
(* order and having recorded exactly as many results as there were         *)
(* entries.                                                                *)
C40_FanOutTerminates == <>[]FanOutComplete

\* a loop over more entries than the limit has returned after an export
\* failed
C40_Witness ==
    /\ FanOutComplete
    /\ total > ConcurrencyLimit
    /\ \E e \in 1..total : status[e] = "rejected"
    /\ \A e \in 1..total : IsSettled(status, e)

============================================================================
